---- MODULE Spec2Model ----
(***************************************************************************)
(* Model of the MSSQL MCP server core: the connection pool                 *)
(* (src/database/connection.py), the query validator                       *)
(* (src/database/query_validator.py) and the execution engine              *)
(* (src/tools/query.py, src/tools/advanced.py).                            *)
(*                                                                         *)
(* Spec          the pool under concurrent callers; every shared-memory    *)
(*               access of get_connection and close_all is its own step.   *)
(***************************************************************************)
EXTENDS Integers, Sequences, FiniteSets, TLC

(***************************************************************************)
(* Bounds of the model.                                                    *)
(***************************************************************************)
\* number of concurrent callers of the pool
NThreads == 2
\* pool sizing (Settings.MAX_POOL_SIZE / MIN_POOL_SIZE, scaled down)
max_size == 1
min_size == 1
\* number of driver sessions pyodbc.connect can open in one behaviour
MaxConns == 3
\* a statement text is made of at most this many fragments
MaxFrags == 3
\* number of tool calls the engine's caller makes in one behaviour
MaxCalls == 2
MaxNameFrags == 4
MaxRowSet == 2
MaxCap == 1
\* a procedure call produces at most this many result sets
MaxSets == 2
\* a parameters dictionary has at most this many items
MaxParams == 2

Threads == 1..NThreads
Conns == 1..MaxConns
\* conn_wrapper = None
None == 0

VARIABLES
    pool,               \* self._pool: the idle queue, Queue(maxsize=max_size)
    connection_count,   \* self._connection_count
    lock,               \* self._lock: the thread holding it, or None
    pc,                 \* each caller's position in get_connection / close_all
    conn_wrapper,       \* each caller's local conn_wrapper
    conn,               \* each caller's local conn inside _create_connection
    tmp,                \* the value of _connection_count an in-flight += / -= has loaded
    cstate,             \* each driver session: "none" (not opened yet), "closed", or open and
                        \* "ok", "dead" (its probe raises) or "stale" (age > connection_lifetime)
    exc,                \* the exception each caller's get_connection is handling: "none",
                        \* "use" (thrown in at the yield) or "connect" (pyodbc.connect raised)
    decs,               \* history: decrements of _connection_count made for each session
    outcome             \* how each caller's last operation ended

VARIABLES
    query,              \* validate_query's argument: the statement text, a sequence of characters
    allow_write,        \* QueryValidator.allow_write
    verdict,            \* validate_query's result (is_valid, error_message), or Unset before the call
    identifier,         \* _is_valid_identifier's argument name, a sequence of characters
    identifier_ok,      \* what _is_valid_identifier returned: "True", "False", or "unset" before the call
    procedure_name,     \* execute_procedure's argument procedure_name, a sequence of characters
    parameters,         \* execute_procedure's argument parameters: the dictionary's items in order
    exec_statement,     \* the text execute_procedure passes to cursor.execute, Unbuilt before the call
    param_values        \* the values execute_procedure passes to cursor.execute with the text

VARIABLES
    write_enabled,      \* settings.MSSQL_ALLOW_WRITE_OPERATIONS
    req,                \* the tool call in progress: tool, text, database, dry_run
    epc,                \* the engine's position in the tool function
    result,             \* the dictionary the tool returned
    driver_log,         \* history: what cursor.execute was called with during this call
    commits,            \* history: conn.commit() calls during this call
    max_rows,           \* execute_query's argument max_rows
    rowset,             \* the rows the executed statement produced, NoRowSet when cursor.description is None
    fetched,            \* history: how many rows were read from the cursor
    rows,               \* execute_query's local rows
    pending,            \* per connection: the calls whose statement ran in its open transaction
    persisted,          \* the calls whose statement was committed
    db_context,         \* per connection: the database its session is in
    acquired,           \* history: this call entered db.get_connection()
    calls,              \* number of tool calls started
    driver_sets,        \* history: the result sets the cursor has been positioned on, in order:
                        \* the number of rows of each, NoRowSet for one without a row description
    drained,            \* cursor.nextset() has reported that there is no further result set
    result_sets,        \* execute_procedure's local result_sets
    cursor_open         \* the cursor this call obtained from conn.cursor() has not been closed

VARIABLES
    cls_instance,       \* DatabaseConnection._instance: None, or the instance made by that caller
    cls_pool,           \* DatabaseConnection._pool: None, or the pool constructed by that caller
    spc,                \* each caller's position in get_db_connection
    constructed,        \* history: the ConnectionPool objects constructed, named by their constructor
    used_pool,          \* history: the pool each caller's last db.get_connection() went to
    mpc,                \* the monitoring caller's position in get_stats
    total_read,         \* the value of _connection_count get_stats has read
    stats               \* the dictionary get_stats returned, NoStats before it returns

poolVars == <<pool, connection_count, lock, pc, conn_wrapper, conn, tmp, cstate, exc, decs, outcome>>
execVars == <<procedure_name, parameters, exec_statement, param_values>>
singletonVars == <<cls_instance, cls_pool, spc, constructed, used_pool>>
statsVars == <<mpc, total_read, stats>>
facadeVars == <<singletonVars, statsVars>>
valVars == <<query, allow_write, verdict, identifier, identifier_ok, execVars, facadeVars>>
cursorVars == <<max_rows, rowset, fetched, rows>>
txVars == <<pending, persisted, db_context>>
procVars == <<driver_sets, drained, result_sets>>
engVars ==
    <<write_enabled, req, epc, result, driver_log, commits, acquired, calls, cursorVars, txVars,
      procVars, cursor_open>>
nonPoolVars == <<valVars, engVars>>
vars == <<poolVars, valVars, engVars>>

----
(***************************************************************************)
(* Helpers.                                                                *)
(***************************************************************************)
Range(s) == {s[i] : i \in 1..Len(s)}

\* the next session pyodbc.connect opens
NextId == Cardinality({c \in Conns : cstate[c] # "none"}) + 1

\* Queue.get: the item removed is the head, the queue keeps the rest
QueueHead(q) == Head(q)
\* mutant of QueueRest: get hands out the head and leaves it in the queue
QueueRestKeepsHead(q) == q
QueueRest(q) == Tail(q)

\* Queue.put(block=False) raises Full when qsize() >= maxsize
QueueFull(q) == Len(q) >= max_size

\* ConnectionPool._is_connection_valid: probe "SELECT 1", then the age check
is_connection_valid(c) ==
    IF cstate[c] = "dead" THEN FALSE          \* cursor.execute raises -> except -> False
    ELSE IF cstate[c] = "stale" THEN FALSE    \* age.total_seconds() > connection_lifetime
    ELSE TRUE

\* connection.close(): the session is closed (closing twice raises, and is swallowed)
Open(c) == cstate[c] \in {"ok", "dead", "stale"}
Close(c) == [cstate EXCEPT ![c] = "closed"]

----
(***************************************************************************)
(* Text. A statement is a sequence of one-character strings.               *)
(***************************************************************************)
LowerChars == <<"a","b","c","d","e","f","g","h","i","j","k","l","m",
                "n","o","p","q","r","s","t","u","v","w","x","y","z">>
UpperChars == <<"A","B","C","D","E","F","G","H","I","J","K","L","M",
                "N","O","P","Q","R","S","T","U","V","W","X","Y","Z">>
Digits == {"0","1","2","3","4","5","6","7","8","9"}

\* str.upper / str.lower on one character
UpperChar(c) ==
    IF \E i \in 1..Len(LowerChars) : LowerChars[i] = c
    THEN UpperChars[CHOOSE i \in 1..Len(LowerChars) : LowerChars[i] = c]
    ELSE c
LowerChar(c) ==
    IF \E i \in 1..Len(UpperChars) : UpperChars[i] = c
    THEN LowerChars[CHOOSE i \in 1..Len(UpperChars) : UpperChars[i] = c]
    ELSE c
upper(s) == [i \in 1..Len(s) |-> UpperChar(s[i])]
\* mutant of lower: the letter case is kept
lowerKeepsCase(s) == s

lower(s) == [i \in 1..Len(s) |-> LowerChar(s[i])]

\* the characters str.strip() removes
IsSpace(c) == c \in {" ", "\t", "\n", "\r"}
\* the characters of regex \w
IsWordChar(c) == c \in Range(LowerChars) \cup Range(UpperChars) \cup Digits \cup {"_"}

\* str.strip(): leading and trailing whitespace removed
strip(s) ==
    IF \A i \in 1..Len(s) : IsSpace(s[i]) THEN <<>>
    ELSE LET first == CHOOSE i \in 1..Len(s) : ~IsSpace(s[i]) /\ \A j \in 1..(i-1) : IsSpace(s[j])
             last == CHOOSE i \in 1..Len(s) : ~IsSpace(s[i]) /\ \A j \in (i+1)..Len(s) : IsSpace(s[j])
         IN SubSeq(s, first, last)

\* str.startswith
startswith(s, prefix) == Len(s) >= Len(prefix) /\ SubSeq(s, 1, Len(prefix)) = prefix

\* w occurs in s at position i
OccursAt(s, w, i) == i >= 1 /\ i + Len(w) - 1 <= Len(s) /\ SubSeq(s, i, i + Len(w) - 1) = w

\* `w in s` on strings
contains(s, w) == \E i \in 1..Len(s) : OccursAt(s, w, i)

\* regex \b at the gap before position i (1..Len(s)+1): exactly one side is a word character
WordBoundary(s, i) ==
    LET before == i > 1 /\ IsWordChar(s[i-1])
        after == i <= Len(s) /\ IsWordChar(s[i])
    IN before # after

\* re.search(r"\bw\b", s)
search_word(s, w) ==
    \E i \in 1..Len(s) : OccursAt(s, w, i) /\ WordBoundary(s, i) /\ WordBoundary(s, i + Len(w))

\* the number of single quotes in s[from..Len(s)]
QuotesFrom(s, from) == Cardinality({i \in from..Len(s) : s[i] = "'"})

\* re.search(MULTI_STATEMENT_PATTERN, s): a semicolon whose remainder up to the end
\* of the text, (?:[^']*'[^']*')*[^']*$, holds an even number of single quotes
search_multi_statement(s) ==
    \E i \in 1..Len(s) : s[i] = ";" /\ QuotesFrom(s, i + 1) % 2 = 0

(***************************************************************************)
(* QueryValidator                                                          *)
(***************************************************************************)
kw_SELECT == <<"S","E","L","E","C","T">>
kw_WITH == <<"W","I","T","H">>
kw_INSERT == <<"I","N","S","E","R","T">>
kw_UPDATE == <<"U","P","D","A","T","E">>
kw_DELETE == <<"D","E","L","E","T","E">>
kw_DROP == <<"D","R","O","P">>
kw_TRUNCATE == <<"T","R","U","N","C","A","T","E">>
kw_ALTER == <<"A","L","T","E","R">>
kw_CREATE == <<"C","R","E","A","T","E">>
kw_GRANT == <<"G","R","A","N","T">>
kw_REVOKE == <<"R","E","V","O","K","E">>
kw_EXEC == <<"E","X","E","C">>
kw_EXECUTE == <<"E","X","E","C","U","T","E">>
kw_xp_cmdshell == <<"x","p","_","c","m","d","s","h","e","l","l">>
kw_sp_configure == <<"s","p","_","c","o","n","f","i","g","u","r","e">>

\* QueryValidator.DANGEROUS_PATTERNS, in order, each \bword\b
DANGEROUS_PATTERNS ==
    <<kw_DROP, kw_DELETE, kw_TRUNCATE, kw_ALTER, kw_CREATE, kw_GRANT, kw_REVOKE,
      kw_EXEC, kw_EXECUTE, kw_xp_cmdshell, kw_sp_configure>>

\* mutant of search_word_ignorecase: the pattern's letters match their own case only
search_word_exact(s, w) == search_word(s, w)

\* re.search(pattern, normalized_query, re.IGNORECASE): the pattern's letters match either case
search_word_ignorecase(s, w) == search_word(upper(s), upper(w))

\* the tuple (is_valid, error_message); pattern is the deny-list entry the message quotes
Unset == [is_valid |-> FALSE, error |-> "unset", pattern |-> <<>>]
Valid == [is_valid |-> TRUE, error |-> "None", pattern |-> <<>>]
Invalid(msg) == [is_valid |-> FALSE, error |-> msg, pattern |-> <<>>]
InvalidPattern(pat) == [is_valid |-> FALSE, error |-> "Operation not allowed: ", pattern |-> pat]

\* lines 47-49: the first deny-list pattern found in normalized_query, 0 when there is none
FirstDangerous(normalized_query) ==
    IF \E k \in 1..Len(DANGEROUS_PATTERNS) : search_word_ignorecase(normalized_query, DANGEROUS_PATTERNS[k])
    THEN CHOOSE k \in 1..Len(DANGEROUS_PATTERNS) :
            /\ search_word_ignorecase(normalized_query, DANGEROUS_PATTERNS[k])
            /\ \A j \in 1..(k-1) : ~search_word_ignorecase(normalized_query, DANGEROUS_PATTERNS[j])
    ELSE 0

\* lines 39-40: normalized_query.strip() starts with SELECT or WITH
StartsReadOnly(normalized_query) ==
    \/ startswith(strip(normalized_query), kw_SELECT)
    \/ startswith(strip(normalized_query), kw_WITH)

\* QueryValidator.validate_query
validate_query(q, allow) ==
    IF q = <<>> \/ strip(q) = <<>> THEN Invalid("Query cannot be empty")
    ELSE IF search_multi_statement(q) THEN Invalid("Multiple statements are not allowed")
    ELSE LET normalized_query == upper(q) IN
        IF ~allow /\ ~StartsReadOnly(normalized_query)
              /\ (contains(normalized_query, kw_INSERT) \/ contains(normalized_query, kw_UPDATE))
        THEN Invalid("Write operations (INSERT, UPDATE) are not allowed in read-only mode")
        ELSE IF ~allow /\ ~StartsReadOnly(normalized_query) /\ FirstDangerous(normalized_query) # 0
        THEN InvalidPattern(DANGEROUS_PATTERNS[FirstDangerous(normalized_query)])
        ELSE IF ~allow /\ contains(lower(q), kw_xp_cmdshell)
        THEN Invalid("Dangerous stored procedure execution is not allowed")
        ELSE Valid

\* QueryValidator.is_select_statement
is_select_statement(q) ==
    startswith(upper(strip(q)), kw_SELECT) \/ startswith(upper(strip(q)), kw_WITH)

(***************************************************************************)
(* _is_valid_identifier (src/tools/advanced.py)                            *)
(***************************************************************************)
\* len(name) > 256 is rejected
MaxIdentifierLen == 256

\* str.isalnum() on one character
IsAlnum(c) == c \in Range(LowerChars) \cup Range(UpperChars) \cup Digits

IsBracket(c) == c \in {"[", "]"}

\* part.strip('[]'): every leading and trailing '[' or ']' removed
strip_brackets(s) ==
    IF \A i \in 1..Len(s) : IsBracket(s[i]) THEN <<>>
    ELSE LET first == CHOOSE i \in 1..Len(s) : ~IsBracket(s[i]) /\ \A j \in 1..(i-1) : IsBracket(s[j])
             last == CHOOSE i \in 1..Len(s) : ~IsBracket(s[i]) /\ \A j \in (i+1)..Len(s) : IsBracket(s[j])
         IN SubSeq(s, first, last)

\* name.split('.')
RECURSIVE split_dot(_)
split_dot(s) ==
    IF \E i \in 1..Len(s) : s[i] = "."
    THEN LET i == CHOOSE k \in 1..Len(s) : s[k] = "." /\ \A j \in 1..(k-1) : s[j] # "."
         IN <<SubSeq(s, 1, i - 1)>> \o split_dot(SubSeq(s, i + 1, Len(s)))
    ELSE <<s>>

is_valid_identifier(name) ==
    IF name = <<>> \/ Len(name) > MaxIdentifierLen THEN FALSE
    ELSE LET parts == split_dot(name) IN
        IF Len(parts) > 2 THEN FALSE
        ELSE \A k \in 1..Len(parts) :
                LET part == strip_brackets(parts[k]) IN
                /\ part # <<>>
                /\ \A i \in 1..Len(part) : IsAlnum(part[i]) \/ part[i] = "_"

----
(***************************************************************************)
(* The statement texts the validator is run on: every concatenation of at  *)
(* most MaxFrags fragments, and the probes of the test suite.              *)
(***************************************************************************)
RECURSIVE Flatten(_)
Flatten(ss) == IF ss = <<>> THEN <<>> ELSE Head(ss) \o Flatten(Tail(ss))

\* "Xp_CmdShell": the procedure name in mixed case
xp_cmdshell_mixed == <<"X","p","_","C","m","d","S","h","e","l","l">>

Frags ==
    { <<" ">>, <<";">>, <<"'">>, <<"T">>,
      kw_SELECT, <<"w","i","t","h">>, kw_INSERT, kw_DROP, kw_xp_cmdshell, xp_cmdshell_mixed }

FragTexts == UNION {{Flatten(fs) : fs \in [1..n -> Frags]} : n \in 0..MaxFrags}

\* "SELECT * FROM T; DROP TABLE T;"
probe_injection ==
    <<"S","E","L","E","C","T"," ","*"," ","F","R","O","M"," ","T",";",
      " ","D","R","O","P"," ","T","A","B","L","E"," ","T",";">>
\* "SELECT ';' FROM T"
probe_quoted_semicolon ==
    <<"S","E","L","E","C","T"," ","'",";","'"," ","F","R","O","M"," ","T">>

\* "SELECT 1; DROP TABLE T --'"
probe_comment_quote == <<"S","E","L","E","C","T"," ","1",";"," ","D","R","O","P"," ","T","A","B","L","E"," ","T"," ","-","-","'">>

Probes == {probe_injection, probe_quoted_semicolon, probe_comment_quote}

Statements == FragTexts \cup Probes

----
(***************************************************************************)
(* Init: the state after ConnectionPool.__init__: _initialize_pool tried   *)
(* min_size connects, each of which may have failed.                       *)
(***************************************************************************)
InitPool ==
    \E k \in 0..min_size :
        /\ pool = [i \in 1..k |-> i]
        /\ connection_count = k
        /\ cstate = [c \in Conns |-> IF c <= k THEN "ok" ELSE "none"]
        /\ lock = None
        /\ pc = [t \in Threads |-> "idle"]
        /\ conn_wrapper = [t \in Threads |-> None]
        /\ conn = [t \in Threads |-> None]
        /\ tmp = [t \in Threads |-> 0]
        /\ exc = [t \in Threads |-> "none"]
        /\ decs = [c \in Conns |-> 0]
        /\ outcome = [t \in Threads |-> "none"]

----
(***************************************************************************)
(* ConnectionPool.get_connection, one step per shared-memory access.       *)
(* pc: idle -> get -> (valid: loaned) | (invalid: repl_dec_r -> repl_dec_w *)
(*     -> repl_create -> repl_inc_w -> loaned) | (Empty: empty_lock ->     *)
(*     empty_create -> empty_inc_w -> loaned | wait -> loaned)             *)
(*     loaned -> release (-> ovf_dec_r -> ovf_dec_w) -> idle               *)
(*     loaned -> exc (-> exc_dec_r -> exc_dec_w) -> idle                   *)
(***************************************************************************)

\* a caller enters `with pool.get_connection()`: conn_wrapper = None
StartAcquire(t) ==
    /\ pc[t] = "idle"
    /\ pc' = [pc EXCEPT ![t] = "get"]
    /\ conn_wrapper' = [conn_wrapper EXCEPT ![t] = None]
    /\ outcome' = [outcome EXCEPT ![t] = "none"]
    /\ UNCHANGED <<exc, conn, pool, connection_count, lock, tmp, cstate, decs>>

\* line 86, an item is there: conn_wrapper = self._pool.get(block=True, timeout=5);
\* lines 89-94: the wrapper is validated, and closed when it is invalid
GetFromPool(t) ==
    /\ pc[t] = "get"
    /\ pool # <<>>
    /\ LET c == QueueHead(pool) IN
        /\ pool' = QueueRest(pool)
        /\ conn_wrapper' = [conn_wrapper EXCEPT ![t] = c]
        /\ IF is_connection_valid(c)
           THEN /\ pc' = [pc EXCEPT ![t] = "loaned"]
                /\ cstate' = cstate
           ELSE /\ pc' = [pc EXCEPT ![t] = "repl_dec_r"]
                /\ cstate' = Close(c)
    /\ UNCHANGED <<exc, conn, connection_count, lock, tmp, decs, outcome>>

\* line 86, nothing arrives within the timeout: queue.Empty is raised
GetTimeout(t) ==
    /\ pc[t] = "get"
    /\ pool = <<>>
    /\ pc' = [pc EXCEPT ![t] = "empty_lock"]
    /\ UNCHANGED <<exc, conn, pool, connection_count, lock, conn_wrapper, tmp, cstate, decs, outcome>>

\* lines 95-96: with self._lock: the load of self._connection_count -= 1
ReplDecRead(t) ==
    /\ pc[t] = "repl_dec_r"
    /\ lock = None
    /\ lock' = t
    /\ tmp' = [tmp EXCEPT ![t] = connection_count]
    /\ pc' = [pc EXCEPT ![t] = "repl_dec_w"]
    /\ UNCHANGED <<exc, conn, pool, connection_count, conn_wrapper, cstate, decs, outcome>>

\* lines 95-96: the store of self._connection_count -= 1, and the lock is released
ReplDecWrite(t) ==
    /\ pc[t] = "repl_dec_w"
    /\ connection_count' = tmp[t] - 1
    /\ decs' = [decs EXCEPT ![conn_wrapper[t]] = @ + 1]
    /\ lock' = None
    /\ pc' = [pc EXCEPT ![t] = "repl_create"]
    /\ tmp' = [tmp EXCEPT ![t] = 0]
    /\ UNCHANGED <<exc, conn, pool, conn_wrapper, cstate, outcome>>

\* line 97 -> lines 47-48, outside the lock: pyodbc.connect succeeds and
\* self._connection_count += 1 loads the count
ReplCreate(t) ==
    /\ pc[t] = "repl_create"
    /\ NextId <= MaxConns
    /\ cstate' = [cstate EXCEPT ![NextId] = "ok"]
    /\ tmp' = [tmp EXCEPT ![t] = connection_count]
    /\ pc' = [pc EXCEPT ![t] = "repl_inc_w"]
    /\ conn' = [conn EXCEPT ![t] = NextId]
    /\ UNCHANGED <<exc, pool, connection_count, lock, conn_wrapper, decs, outcome>>

\* line 97 -> line 47: pyodbc.connect raises; conn_wrapper still names the
\* wrapper closed at line 92, and the handler at line 116 takes over
ReplCreateFails(t) ==
    /\ pc[t] = "repl_create"
    /\ pc' = [pc EXCEPT ![t] = "exc"]
    /\ exc' = [exc EXCEPT ![t] = "connect"]
    /\ UNCHANGED <<conn, pool, connection_count, lock, conn_wrapper, tmp, cstate, decs, outcome>>

\* line 48 (store) and line 97 (conn_wrapper = the new wrapper); line 111-114: yield
ReplIncWrite(t) ==
    /\ pc[t] = "repl_inc_w"
    /\ connection_count' = tmp[t] + 1
    /\ conn_wrapper' = [conn_wrapper EXCEPT ![t] = conn[t]]
    /\ conn' = [conn EXCEPT ![t] = None]
    /\ pc' = [pc EXCEPT ![t] = "loaned"]
    /\ tmp' = [tmp EXCEPT ![t] = 0]
    /\ UNCHANGED <<exc, pool, lock, cstate, decs, outcome>>

\* lines 101-102: with self._lock: if self._connection_count < self.max_size
\* mutant of EmptyLock: an empty queue always sends the caller to the blocking get
EmptyLockAlwaysWaits(t) ==
    /\ pc[t] = "empty_lock"
    /\ lock = None
    /\ lock' = t
    /\ pc' = [pc EXCEPT ![t] = "wait"]
    /\ UNCHANGED <<exc, conn, pool, connection_count, conn_wrapper, tmp, cstate, decs, outcome>>

\* lines 99-101: except Empty: with self._lock: if self._connection_count < self.max_size
EmptyLock(t) ==
    /\ pc[t] = "empty_lock"
    /\ lock = None
    /\ lock' = t
    /\ pc' = [pc EXCEPT ![t] = IF connection_count < max_size THEN "empty_create" ELSE "wait"]
    /\ UNCHANGED <<exc, conn, pool, connection_count, conn_wrapper, tmp, cstate, decs, outcome>>

\* line 103 -> lines 47-48, under the lock: connect succeeds, += 1 loads the count
EmptyCreate(t) ==
    /\ pc[t] = "empty_create"
    /\ NextId <= MaxConns
    /\ cstate' = [cstate EXCEPT ![NextId] = "ok"]
    /\ tmp' = [tmp EXCEPT ![t] = connection_count]
    /\ pc' = [pc EXCEPT ![t] = "empty_inc_w"]
    /\ conn' = [conn EXCEPT ![t] = NextId]
    /\ UNCHANGED <<exc, pool, connection_count, lock, conn_wrapper, decs, outcome>>

\* line 103 -> line 47: connect raises; the with block releases the lock,
\* conn_wrapper is None, the handler at line 116 re-raises
EmptyCreateFails(t) ==
    /\ pc[t] = "empty_create"
    /\ lock' = None
    /\ pc' = [pc EXCEPT ![t] = "exc"]
    /\ exc' = [exc EXCEPT ![t] = "connect"]
    /\ UNCHANGED <<conn, pool, connection_count, conn_wrapper, tmp, cstate, decs, outcome>>

\* line 48 (store), line 103 (assignment), the lock is released; lines 111-114: yield
EmptyIncWrite(t) ==
    /\ pc[t] = "empty_inc_w"
    /\ connection_count' = tmp[t] + 1
    /\ conn_wrapper' = [conn_wrapper EXCEPT ![t] = conn[t]]
    /\ conn' = [conn EXCEPT ![t] = None]
    /\ lock' = None
    /\ pc' = [pc EXCEPT ![t] = "loaned"]
    /\ tmp' = [tmp EXCEPT ![t] = 0]
    /\ UNCHANGED <<exc, pool, cstate, decs, outcome>>

\* line 108: conn_wrapper = self._pool.get(block=True), inside `with self._lock`;
\* the lock is released when the get returns; lines 111-114: yield, unvalidated
WaitGet(t) ==
    /\ pc[t] = "wait"
    /\ pool # <<>>
    /\ conn_wrapper' = [conn_wrapper EXCEPT ![t] = QueueHead(pool)]
    /\ pool' = QueueRest(pool)
    /\ lock' = None
    /\ pc' = [pc EXCEPT ![t] = "loaned"]
    /\ UNCHANGED <<exc, conn, connection_count, tmp, cstate, decs, outcome>>

\* the caller's with-body ends normally: the generator resumes in the else branch
UseOk(t) ==
    /\ pc[t] = "loaned"
    /\ pc' = [pc EXCEPT ![t] = "release"]
    /\ UNCHANGED <<exc, conn, pool, connection_count, lock, conn_wrapper, tmp, cstate, decs, outcome>>

\* the caller's with-body raises: the exception is thrown into the generator at the yield
UseRaise(t) ==
    /\ pc[t] = "loaned"
    /\ pc' = [pc EXCEPT ![t] = "exc"]
    /\ exc' = [exc EXCEPT ![t] = "use"]
    /\ UNCHANGED <<conn, pool, connection_count, lock, conn_wrapper, tmp, cstate, decs, outcome>>

\* mutant of Release: on Full the wrapper is closed and queued all the same
ReleaseQueuesClosed(t) ==
    /\ pc[t] = "release"
    /\ pool' = Append(pool, conn_wrapper[t])
    /\ cstate' = IF QueueFull(pool) THEN Close(conn_wrapper[t]) ELSE cstate
    /\ pc' = [pc EXCEPT ![t] = "idle"]
    /\ outcome' = [outcome EXCEPT ![t] = "ok"]
    /\ conn_wrapper' = [conn_wrapper EXCEPT ![t] = None]
    /\ UNCHANGED <<exc, conn, connection_count, lock, tmp, decs>>

\* lines 129-137: self._pool.put(conn_wrapper, block=False); on Full the connection is closed
Release(t) ==
    /\ pc[t] = "release"
    /\ IF ~QueueFull(pool)
       THEN /\ pool' = Append(pool, conn_wrapper[t])
            /\ pc' = [pc EXCEPT ![t] = "idle"]
            /\ outcome' = [outcome EXCEPT ![t] = "ok"]
            /\ conn_wrapper' = [conn_wrapper EXCEPT ![t] = None]
            /\ cstate' = cstate
       ELSE /\ cstate' = Close(conn_wrapper[t])
            /\ pc' = [pc EXCEPT ![t] = "ovf_dec_r"]
            /\ UNCHANGED <<pool, outcome, conn_wrapper>>
    /\ UNCHANGED <<exc, conn, connection_count, lock, tmp, decs>>

\* lines 138-139: with self._lock: the load of -= 1
OverflowDecRead(t) ==
    /\ pc[t] = "ovf_dec_r"
    /\ lock = None
    /\ lock' = t
    /\ tmp' = [tmp EXCEPT ![t] = connection_count]
    /\ pc' = [pc EXCEPT ![t] = "ovf_dec_w"]
    /\ UNCHANGED <<exc, conn, pool, connection_count, conn_wrapper, cstate, decs, outcome>>

\* lines 138-139: the store of -= 1; the context manager exits normally
OverflowDecWrite(t) ==
    /\ pc[t] = "ovf_dec_w"
    /\ connection_count' = tmp[t] - 1
    /\ decs' = [decs EXCEPT ![conn_wrapper[t]] = @ + 1]
    /\ lock' = None
    /\ pc' = [pc EXCEPT ![t] = "idle"]
    /\ outcome' = [outcome EXCEPT ![t] = "ok"]
    /\ tmp' = [tmp EXCEPT ![t] = 0]
    /\ conn_wrapper' = [conn_wrapper EXCEPT ![t] = None]
    /\ UNCHANGED <<exc, conn, pool, cstate>>

\* mutant of ExcClose: the handler gives the wrapper back to the idle queue
ExcCloseRequeues(t) ==
    /\ pc[t] = "exc"
    /\ pool' = IF conn_wrapper[t] # None THEN Append(pool, conn_wrapper[t]) ELSE pool
    /\ pc' = [pc EXCEPT ![t] = "idle"]
    /\ outcome' = [outcome EXCEPT ![t] = "raised"]
    /\ exc' = [exc EXCEPT ![t] = "none"]
    /\ conn_wrapper' = [conn_wrapper EXCEPT ![t] = None]
    /\ UNCHANGED <<conn, connection_count, lock, tmp, cstate, decs>>

\* lines 116-123: except Exception: if conn_wrapper: close it (errors swallowed);
\* with no wrapper the exception is re-raised at once (line 126)
ExcClose(t) ==
    /\ pc[t] = "exc"
    /\ IF conn_wrapper[t] # None
       THEN /\ cstate' = Close(conn_wrapper[t])
            /\ pc' = [pc EXCEPT ![t] = "exc_dec_r"]
            /\ UNCHANGED <<outcome, exc>>
       ELSE /\ pc' = [pc EXCEPT ![t] = "idle"]
            /\ outcome' = [outcome EXCEPT ![t] = "raised"]
            /\ exc' = [exc EXCEPT ![t] = "none"]
            /\ cstate' = cstate
    /\ UNCHANGED <<conn, pool, connection_count, lock, conn_wrapper, tmp, decs>>

\* lines 124-125: with self._lock: the load of -= 1
ExcDecRead(t) ==
    /\ pc[t] = "exc_dec_r"
    /\ lock = None
    /\ lock' = t
    /\ tmp' = [tmp EXCEPT ![t] = connection_count]
    /\ pc' = [pc EXCEPT ![t] = "exc_dec_w"]
    /\ UNCHANGED <<exc, conn, pool, connection_count, conn_wrapper, cstate, decs, outcome>>

\* lines 124-126: the store of -= 1, the lock is released, raise
ExcDecWrite(t) ==
    /\ pc[t] = "exc_dec_w"
    /\ connection_count' = tmp[t] - 1
    /\ decs' = [decs EXCEPT ![conn_wrapper[t]] = @ + 1]
    /\ lock' = None
    /\ pc' = [pc EXCEPT ![t] = "idle"]
    /\ outcome' = [outcome EXCEPT ![t] = "raised"]
    /\ tmp' = [tmp EXCEPT ![t] = 0]
    /\ conn_wrapper' = [conn_wrapper EXCEPT ![t] = None]
    /\ exc' = [exc EXCEPT ![t] = "none"]
    /\ UNCHANGED <<conn, pool, cstate>>

----
(***************************************************************************)
(* ConnectionPool.close_all                                                *)
(***************************************************************************)
StartCloseAll(t) ==
    /\ pc[t] = "idle"
    /\ pc' = [pc EXCEPT ![t] = "ca_loop"]
    /\ conn_wrapper' = [conn_wrapper EXCEPT ![t] = None]
    /\ outcome' = [outcome EXCEPT ![t] = "none"]
    /\ UNCHANGED <<exc, conn, pool, connection_count, lock, tmp, cstate, decs>>

\* lines 144-147: while not empty(): get(block=False); close(). An empty queue
\* ends the loop; close() raising (a session already closed) skips the decrement
CloseAllGet(t) ==
    /\ pc[t] = "ca_loop"
    /\ IF pool = <<>>
       THEN /\ pc' = [pc EXCEPT ![t] = "idle"]
            /\ outcome' = [outcome EXCEPT ![t] = "closed_all"]
            /\ UNCHANGED <<pool, conn_wrapper, cstate>>
       ELSE LET c == QueueHead(pool) IN
            /\ pool' = QueueRest(pool)
            /\ conn_wrapper' = [conn_wrapper EXCEPT ![t] = c]
            /\ cstate' = Close(c)
            /\ pc' = [pc EXCEPT ![t] = IF cstate[c] = "closed" THEN "ca_loop" ELSE "ca_dec_r"]
            /\ outcome' = outcome
    /\ UNCHANGED <<exc, conn, connection_count, lock, tmp, decs>>

\* lines 148-149: with self._lock: the load of -= 1
CloseAllDecRead(t) ==
    /\ pc[t] = "ca_dec_r"
    /\ lock = None
    /\ lock' = t
    /\ tmp' = [tmp EXCEPT ![t] = connection_count]
    /\ pc' = [pc EXCEPT ![t] = "ca_dec_w"]
    /\ UNCHANGED <<exc, conn, pool, connection_count, conn_wrapper, cstate, decs, outcome>>

\* lines 148-149: the store of -= 1; back to the loop test
CloseAllDecWrite(t) ==
    /\ pc[t] = "ca_dec_w"
    /\ connection_count' = tmp[t] - 1
    /\ decs' = [decs EXCEPT ![conn_wrapper[t]] = @ + 1]
    /\ lock' = None
    /\ pc' = [pc EXCEPT ![t] = "ca_loop"]
    /\ tmp' = [tmp EXCEPT ![t] = 0]
    /\ conn_wrapper' = [conn_wrapper EXCEPT ![t] = None]
    /\ UNCHANGED <<exc, conn, pool, cstate, outcome>>

----
(***************************************************************************)
(* The environment: an idle session dies (its probe will raise) or outlives*)
(* connection_lifetime. Both are seen only by _is_connection_valid.        *)
(***************************************************************************)
ConnectionDies(c) ==
    /\ c \in Range(pool)
    /\ cstate[c] = "ok"
    /\ cstate' = [cstate EXCEPT ![c] = "dead"]
    /\ UNCHANGED <<exc, conn, pool, connection_count, lock, pc, conn_wrapper, tmp, decs, outcome>>

ConnectionExpires(c) ==
    /\ c \in Range(pool)
    /\ cstate[c] = "ok"
    /\ cstate' = [cstate EXCEPT ![c] = "stale"]
    /\ UNCHANGED <<exc, conn, pool, connection_count, lock, pc, conn_wrapper, tmp, decs, outcome>>

----
\* the steps of a caller already inside get_connection or close_all
ThreadNext(t) ==
    \/ GetFromPool(t)
    \/ GetTimeout(t)
    \/ ReplDecRead(t)
    \/ ReplDecWrite(t)
    \/ ReplCreate(t)
    \/ ReplCreateFails(t)
    \/ ReplIncWrite(t)
    \/ EmptyLock(t)
    \/ EmptyCreate(t)
    \/ EmptyCreateFails(t)
    \/ EmptyIncWrite(t)
    \/ WaitGet(t)
    \/ UseOk(t)
    \/ UseRaise(t)
    \/ Release(t)
    \/ OverflowDecRead(t)
    \/ OverflowDecWrite(t)
    \/ ExcClose(t)
    \/ ExcDecRead(t)
    \/ ExcDecWrite(t)
    \/ CloseAllGet(t)
    \/ CloseAllDecRead(t)
    \/ CloseAllDecWrite(t)

\* the validator and the engine are not part of the pool's behaviours
\* no statement text has been built
Unbuilt == <<"unbuilt">>
\* get_stats has not returned
NoStats == [total_connections |-> 0, available_connections |-> 0, max_connections |-> 0,
            min_connections |-> 0, returned |-> FALSE]
\* class DatabaseConnection as the module is imported (connection.py 165-166), no caller yet
FacadeIdle ==
    /\ cls_instance = None /\ cls_pool = None
    /\ spc = [t \in Threads |-> "idle"]
    /\ constructed = {}
    /\ used_pool = [t \in Threads |-> None]
    /\ mpc = "idle" /\ total_read = 0 /\ stats = NoStats
ExecIdle ==
    /\ procedure_name = <<>> /\ parameters = <<>>
    /\ exec_statement = Unbuilt /\ param_values = <<>>
ValidatorIdle ==
    /\ query = <<>> /\ allow_write = FALSE /\ verdict = Unset
    /\ identifier = <<>> /\ identifier_ok = "unset"
    /\ ExecIdle
    /\ FacadeIdle
NoReq == [tool |-> "none", text |-> <<>>, database |-> "", dry_run |-> FALSE]
NoResult ==
    [success |-> FALSE, error |-> "unset", validation |-> "", dry_run |-> FALSE, rollback |-> FALSE,
     rows |-> <<>>, row_count |-> 0, result_sets |-> <<>>, result_set_count |-> 0]
\* cursor.description is None: the statement produced no row set
NoRowSet == -1
\* the database named in the connection string (DATABASE=..., connection.py 46-47)
DefaultDb == ""
EngineIdle ==
    /\ write_enabled = FALSE /\ req = NoReq /\ epc = "idle" /\ result = NoResult
    /\ driver_log = <<>> /\ commits = 0 /\ acquired = FALSE /\ calls = 0
    /\ max_rows = 0 /\ rowset = NoRowSet /\ fetched = 0 /\ rows = <<>>
    /\ pending = [c \in Conns |-> {}] /\ persisted = {}
    /\ db_context = [c \in Conns |-> DefaultDb]
    /\ driver_sets = <<>> /\ drained = FALSE /\ result_sets = <<>> /\ cursor_open = FALSE

Init == InitPool /\ ValidatorIdle /\ EngineIdle

\* the pool's steps leave everything outside the pool alone
Next ==
    \/ \E t \in Threads : StartAcquire(t) /\ UNCHANGED nonPoolVars
    \/ \E t \in Threads : StartCloseAll(t) /\ UNCHANGED nonPoolVars
    \/ \E t \in Threads : GetFromPool(t) /\ UNCHANGED nonPoolVars
    \/ \E t \in Threads : GetTimeout(t) /\ UNCHANGED nonPoolVars
    \/ \E t \in Threads : ReplDecRead(t) /\ UNCHANGED nonPoolVars
    \/ \E t \in Threads : ReplDecWrite(t) /\ UNCHANGED nonPoolVars
    \/ \E t \in Threads : ReplCreate(t) /\ UNCHANGED nonPoolVars
    \/ \E t \in Threads : ReplCreateFails(t) /\ UNCHANGED nonPoolVars
    \/ \E t \in Threads : ReplIncWrite(t) /\ UNCHANGED nonPoolVars
    \/ \E t \in Threads : EmptyLock(t) /\ UNCHANGED nonPoolVars
    \/ \E t \in Threads : EmptyCreate(t) /\ UNCHANGED nonPoolVars
    \/ \E t \in Threads : EmptyCreateFails(t) /\ UNCHANGED nonPoolVars
    \/ \E t \in Threads : EmptyIncWrite(t) /\ UNCHANGED nonPoolVars
    \/ \E t \in Threads : WaitGet(t) /\ UNCHANGED nonPoolVars
    \/ \E t \in Threads : UseOk(t) /\ UNCHANGED nonPoolVars
    \/ \E t \in Threads : UseRaise(t) /\ UNCHANGED nonPoolVars
    \/ \E t \in Threads : Release(t) /\ UNCHANGED nonPoolVars
    \/ \E t \in Threads : OverflowDecRead(t) /\ UNCHANGED nonPoolVars
    \/ \E t \in Threads : OverflowDecWrite(t) /\ UNCHANGED nonPoolVars
    \/ \E t \in Threads : ExcClose(t) /\ UNCHANGED nonPoolVars
    \/ \E t \in Threads : ExcDecRead(t) /\ UNCHANGED nonPoolVars
    \/ \E t \in Threads : ExcDecWrite(t) /\ UNCHANGED nonPoolVars
    \/ \E t \in Threads : CloseAllGet(t) /\ UNCHANGED nonPoolVars
    \/ \E t \in Threads : CloseAllDecRead(t) /\ UNCHANGED nonPoolVars
    \/ \E t \in Threads : CloseAllDecWrite(t) /\ UNCHANGED nonPoolVars
    \/ \E c \in Conns : ConnectionDies(c) /\ UNCHANGED nonPoolVars
    \/ \E c \in Conns : ConnectionExpires(c) /\ UNCHANGED nonPoolVars

Spec == Init /\ [][Next]_vars

\* Fair scheduling: a caller inside an operation whose next step is enabled again
\* and again takes it (a blocked queue.get or lock acquire is served when it can
\* be); in particular every caller on loan leaves its with-body. Callers are not
\* obliged to start new operations.
FairSpec == Spec /\ \A t \in Threads : SF_vars(ThreadNext(t) /\ UNCHANGED nonPoolVars)

----
(***************************************************************************)
(* The execution engine: execute_query (src/tools/query.py), execute_write *)
(* and execute_procedure (src/tools/advanced.py), called by one caller,    *)
(* who is thread EngineThread of the pool.                                 *)
(***************************************************************************)
EngineThread == 1

\* "SELECT 1"
q_select == <<"S","E","L","E","C","T"," ","1">>
\* "SELECT 1 DROP TABLE T"
q_select_drop == <<"S","E","L","E","C","T"," ","1"," ","D","R","O","P"," ","T","A","B","L","E"," ","T">>
\* "INSERT INTO T VALUES (1)"
q_insert == <<"I","N","S","E","R","T"," ","I","N","T","O"," ","T"," ","V","A","L","U","E","S"," ","(","1",")">>
\* "update T set A = 1"
q_update == <<"u","p","d","a","t","e"," ","T"," ","s","e","t"," ","A"," ","="," ","1">>
\* "DELETE FROM T; DROP TABLE T"
q_delete_multi == <<"D","E","L","E","T","E"," ","F","R","O","M"," ","T",";"," ","D","R","O","P"," ","T","A","B","L","E"," ","T">>
\* "dbo.Customers"
n_plain == <<"d","b","o",".","C","u","s","t","o","m","e","r","s">>
\* "[dbo].[Customers]"
n_bracketed == <<"[","d","b","o","]",".","[","C","u","s","t","o","m","e","r","s","]">>
\* "dbo.Customers.Extra"
n_three_parts == <<"d","b","o",".","C","u","s","t","o","m","e","r","s",".","E","x","t","r","a">>
\* "Customers; DROP"
n_injection == <<"C","u","s","t","o","m","e","r","s",";"," ","D","R","O","P">>

\* the texts the tools are called with
QueryTexts == {q_select, q_select_drop, q_insert}
WriteTexts == {q_insert, q_update, q_select, q_delete_multi}
ProcedureNames == {n_plain, n_injection}

\* the database argument: None, a database of the server, a database the server does not have
Databases == {"", "TestDB", "NoSuchDB"}
DatabaseExists(d) == d = "TestDB"

Result(ok, err) ==
    [success |-> ok, error |-> err, validation |-> "", dry_run |-> FALSE, rollback |-> FALSE,
     rows |-> <<>>, row_count |-> 0, result_sets |-> <<>>, result_set_count |-> 0]

\* cursor.execute(sql) on the loaned connection
Logged(kind, text) ==
    Append(driver_log, [conn |-> conn_wrapper[EngineThread], kind |-> kind, text |-> text])

\* the statement of this call ran in the open transaction of the loaned connection
Ran == [pending EXCEPT ![conn_wrapper[EngineThread]] = @ \cup {calls}]

\* conn.commit(): the open transaction of the loaned connection becomes permanent
Committed == persisted \cup pending[conn_wrapper[EngineThread]]

\* a tool function is entered
BeginCall(tool, text, database, dry_run) ==
    /\ epc \in {"idle", "done"}
    /\ pc[EngineThread] = "idle"
    /\ calls < MaxCalls
    /\ calls' = calls + 1
    /\ req' = [tool |-> tool, text |-> text, database |-> database, dry_run |-> dry_run]
    /\ driver_log' = <<>>
    /\ commits' = 0
    /\ rowset' = NoRowSet /\ fetched' = 0 /\ rows' = <<>>
    /\ driver_sets' = <<>> /\ drained' = FALSE /\ result_sets' = <<>>
    /\ cursor_open' = FALSE
    /\ UNCHANGED txVars

\* the tool returns before `with db.get_connection()`
ReturnEarly(res) ==
    /\ result' = res
    /\ epc' = "done"
    /\ acquired' = FALSE
    /\ UNCHANGED poolVars

\* the tool enters `with db.get_connection() as conn`
EnterWith ==
    /\ StartAcquire(EngineThread)
    /\ acquired' = TRUE
    /\ epc' = "acquiring"
    /\ result' = NoResult

\* mutant of IsDml: every statement passes for DML
IsDmlAnything(statement) == TRUE

\* execute_write lines 202-205: the statement is INSERT, UPDATE or DELETE
IsDml(statement) ==
    LET normalized == upper(strip(statement)) IN
    \/ startswith(normalized, kw_INSERT)
    \/ startswith(normalized, kw_UPDATE)
    \/ startswith(normalized, kw_DELETE)

\* mutant of RunQuery: the connection is taken before the statement is validated
RunQueryAcquiresFirst(q, database, cap) ==
    /\ BeginCall("run_query", q, database, FALSE)
    /\ max_rows' = cap
    /\ EnterWith
    /\ UNCHANGED <<write_enabled, valVars>>

\* execute_query lines 15-54: validation, then the with block is entered
RunQuery(q, database, cap) ==
    /\ BeginCall("run_query", q, database, FALSE)
    /\ max_rows' = cap
    /\ LET v == validate_query(q, write_enabled) IN
        IF ~v.is_valid THEN ReturnEarly(Result(FALSE, v.error)) ELSE EnterWith
    /\ UNCHANGED <<write_enabled, valVars>>

\* mutant of RunWrite: dry_run is ignored
RunWriteIgnoresDryRun(statement, database, dry_run) ==
    /\ BeginCall("run_write", statement, database, dry_run)
    /\ max_rows' = 0
    /\ LET v == validate_query(statement, TRUE) IN
        IF ~write_enabled
        THEN ReturnEarly(Result(FALSE, "Write operations are disabled"))
        ELSE IF ~v.is_valid
        THEN ReturnEarly([Result(FALSE, v.error) EXCEPT !.validation = "failed"])
        ELSE IF ~IsDml(statement)
        THEN ReturnEarly([Result(FALSE, "Only INSERT, UPDATE, DELETE statements are allowed")
                            EXCEPT !.validation = "failed"])
        ELSE EnterWith
    /\ UNCHANGED <<write_enabled, valVars>>

\* execute_write lines 180-231: the feature gate, validation, the DML check, dry run
\* (execute_write has no max_rows)
RunWrite(statement, database, dry_run) ==
    /\ BeginCall("run_write", statement, database, dry_run)
    /\ max_rows' = 0
    /\ LET v == validate_query(statement, TRUE) IN
        IF ~write_enabled
        THEN ReturnEarly(Result(FALSE, "Write operations are disabled"))
        ELSE IF ~v.is_valid
        THEN ReturnEarly([Result(FALSE, v.error) EXCEPT !.validation = "failed"])
        ELSE IF ~IsDml(statement)
        THEN ReturnEarly([Result(FALSE, "Only INSERT, UPDATE, DELETE statements are allowed")
                            EXCEPT !.validation = "failed"])
        ELSE IF dry_run
        THEN ReturnEarly([Result(TRUE, "None") EXCEPT !.validation = "passed", !.dry_run = TRUE])
        ELSE EnterWith
    /\ UNCHANGED <<write_enabled, valVars>>

\* mutant of RunProcedure: the feature gate is not consulted
RunProcedureUngated(name, database) ==
    /\ BeginCall("run_procedure", name, database, FALSE)
    /\ max_rows' = 0
    /\ IF ~is_valid_identifier(name)
       THEN ReturnEarly(Result(FALSE, "Invalid procedure name format"))
       ELSE EnterWith
    /\ UNCHANGED <<write_enabled, valVars>>

\* execute_procedure lines 53-82: the feature gate, the identifier check
\* (execute_procedure has no max_rows)
RunProcedure(name, database) ==
    /\ BeginCall("run_procedure", name, database, FALSE)
    /\ max_rows' = 0
    /\ IF ~write_enabled
       THEN ReturnEarly(Result(FALSE, "Stored procedure execution is disabled"))
       ELSE IF ~is_valid_identifier(name)
       THEN ReturnEarly(Result(FALSE, "Invalid procedure name format"))
       ELSE EnterWith
    /\ UNCHANGED <<write_enabled, valVars>>

\* the with-body has the connection
InBody(tool) == req.tool = tool /\ pc[EngineThread] = "loaned"

\* the with-body raises: the exception goes through the pool's handler
BodyRaises ==
    /\ UseRaise(EngineThread)
    /\ epc' = "failing"
    /\ UNCHANGED result

\* mutant of BodyReturns: the tool returns without leaving the with statement
BodyReturnsKeepsLoan(res) ==
    /\ epc' = "done"
    /\ result' = res
    /\ UNCHANGED poolVars

\* the with-body returns res: the pool's else branch runs
BodyReturns(res) ==
    /\ UseOk(EngineThread)
    /\ epc' = "exiting"
    /\ result' = res

\* the with-body goes on to position p
BodyGoes(p) ==
    /\ epc' = p
    /\ UNCHANGED <<poolVars, result>>

\* what no step of a with-body changes
BodyFrame == UNCHANGED <<write_enabled, req, acquired, calls, max_rows, valVars>>

\* cursor.execute("USE [database]") succeeded: the session of the loaned connection is in that database
Used == [db_context EXCEPT ![conn_wrapper[EngineThread]] = req.database]

\* execute_query lines 55-57: cursor = conn.cursor(); if database: cursor.execute(f"USE [{database}]")
QuerySwitch ==
    /\ InBody("run_query") /\ epc = "acquiring"
    /\ IF req.database = ""
       THEN BodyGoes("execute") /\ UNCHANGED driver_log
       ELSE /\ driver_log' = Logged("use", <<>>)
            /\ IF DatabaseExists(req.database) THEN BodyGoes("execute") ELSE BodyRaises
    /\ db_context' = IF req.database # "" /\ DatabaseExists(req.database) THEN Used ELSE db_context
    /\ cursor_open' = TRUE
    /\ BodyFrame
    /\ UNCHANGED <<commits, rowset, fetched, rows, pending, persisted, procVars>>

\* what a statement of execute_query leaves on the cursor: no row set, an empty
\* one, or one of more rows than any cap
QueryRowSets == {NoRowSet, 0, MaxRowSet}

\* execute_query lines 59-61 and 87-93: cursor.execute(final_query) raises, or
\* produces no row set ("No results" is returned), or a row set of n rows
QueryExecute(ok, n) ==
    /\ InBody("run_query") /\ epc = "execute"
    /\ ~ok => n = NoRowSet
    /\ driver_log' = Logged("statement", req.text)
    /\ pending' = Ran
    /\ db_context' = db_context
    /\ rowset' = n
    /\ IF ~ok THEN BodyRaises
       ELSE IF n = NoRowSet THEN BodyReturns(Result(TRUE, "None"))
       ELSE BodyGoes("fetch")
    /\ BodyFrame
    /\ UNCHANGED <<commits, fetched, rows, persisted, procVars, cursor_open>>

\* mutant of QueryFetch: the cap is tested with > in place of >=
QueryFetchOneMore(ok) ==
    /\ InBody("run_query") /\ epc = "fetch"
    /\ IF ~ok
       THEN /\ BodyRaises
            /\ UNCHANGED <<fetched, rows>>
       ELSE IF fetched < rowset
       THEN /\ fetched' = fetched + 1
            /\ IF Len(rows) > max_rows
               THEN /\ BodyReturns([Result(TRUE, "None") EXCEPT !.rows = rows, !.row_count = Len(rows)])
                    /\ UNCHANGED rows
               ELSE /\ rows' = Append(rows, fetched + 1)
                    /\ BodyGoes("fetch")
       ELSE /\ BodyReturns([Result(TRUE, "None") EXCEPT !.rows = rows, !.row_count = Len(rows)])
            /\ UNCHANGED <<fetched, rows>>
    /\ BodyFrame
    /\ UNCHANGED <<driver_log, commits, rowset, txVars, procVars, cursor_open>>

\* execute_query lines 65-86: one turn of `for row in cursor`: the cursor is
\* asked for its next row, which may raise; then `if count >= max_rows: break`, else the row is
\* appended; the rows are returned when the loop ends
QueryFetch(ok) ==
    /\ InBody("run_query") /\ epc = "fetch"
    /\ IF ~ok
       THEN /\ BodyRaises
            /\ UNCHANGED <<fetched, rows>>
       ELSE IF fetched < rowset
       THEN /\ fetched' = fetched + 1
            /\ IF Len(rows) >= max_rows
               THEN /\ BodyReturns([Result(TRUE, "None") EXCEPT !.rows = rows, !.row_count = Len(rows)])
                    /\ UNCHANGED rows
               ELSE /\ rows' = Append(rows, fetched + 1)
                    /\ BodyGoes("fetch")
       ELSE /\ BodyReturns([Result(TRUE, "None") EXCEPT !.rows = rows, !.row_count = Len(rows)])
            /\ UNCHANGED <<fetched, rows>>
    /\ BodyFrame
    /\ UNCHANGED <<driver_log, commits, rowset, txVars, procVars, cursor_open>>

\* execute_write lines 232-243: cursor = conn.cursor(), the catalog lookup (which may
\* raise), "Database not found", USE
WriteSwitch(ok) ==
    /\ InBody("run_write") /\ epc = "acquiring"
    /\ req.database = "" => ok
    /\ IF req.database = ""
       THEN BodyGoes("execute") /\ UNCHANGED driver_log
       ELSE IF ~ok
       THEN /\ driver_log' = Logged("catalog", <<>>)
            /\ BodyRaises
       ELSE IF ~DatabaseExists(req.database)
       THEN /\ driver_log' = Logged("catalog", <<>>)
            /\ BodyReturns(Result(FALSE, "Database not found"))
       ELSE /\ driver_log' = Append(Logged("catalog", <<>>),
                                    [conn |-> conn_wrapper[EngineThread], kind |-> "use", text |-> <<>>])
            /\ BodyGoes("execute")
    /\ db_context' = IF req.database # "" /\ ok /\ DatabaseExists(req.database) THEN Used ELSE db_context
    /\ cursor_open' = TRUE
    /\ BodyFrame
    /\ UNCHANGED <<commits, rowset, fetched, rows, pending, persisted, procVars>>

\* execute_write lines 245-247: cursor.execute(statement)
WriteExecute(ok) ==
    /\ InBody("run_write") /\ epc = "execute"
    /\ driver_log' = Logged("statement", req.text)
    /\ pending' = Ran
    /\ db_context' = db_context
    /\ IF ok THEN BodyGoes("commit") ELSE BodyRaises
    /\ BodyFrame
    /\ UNCHANGED <<commits, rowset, fetched, rows, persisted, procVars, cursor_open>>

\* mutant of WriteCommit: a commit that raised has committed
WriteCommitAnyway(ok) ==
    /\ InBody("run_write") /\ epc = "commit"
    /\ commits' = commits + 1
    /\ persisted' = Committed
    /\ pending' = [pending EXCEPT ![conn_wrapper[EngineThread]] = {}]
    /\ db_context' = db_context
    /\ IF ok THEN BodyReturns(Result(TRUE, "None")) ELSE BodyRaises
    /\ BodyFrame
    /\ UNCHANGED <<driver_log, rowset, fetched, rows, procVars, cursor_open>>

\* execute_write lines 249-262: conn.commit(), then the result is returned
WriteCommit(ok) ==
    /\ InBody("run_write") /\ epc = "commit"
    /\ IF ok
       THEN /\ commits' = commits + 1
            /\ persisted' = Committed
            /\ pending' = [pending EXCEPT ![conn_wrapper[EngineThread]] = {}]
            /\ db_context' = db_context
            /\ BodyReturns(Result(TRUE, "None"))
       ELSE /\ BodyRaises
            /\ UNCHANGED <<commits, txVars>>
    /\ BodyFrame
    /\ UNCHANGED <<driver_log, rowset, fetched, rows, procVars, cursor_open>>

\* execute_procedure lines 83-94: cursor = conn.cursor(), the catalog lookup (which may
\* raise), "Database not found", USE
ProcedureSwitch(ok) ==
    /\ InBody("run_procedure") /\ epc = "acquiring"
    /\ req.database = "" => ok
    /\ IF req.database = ""
       THEN BodyGoes("execute") /\ UNCHANGED driver_log
       ELSE IF ~ok
       THEN /\ driver_log' = Logged("catalog", <<>>)
            /\ BodyRaises
       ELSE IF ~DatabaseExists(req.database)
       THEN /\ driver_log' = Logged("catalog", <<>>)
            /\ BodyReturns(Result(FALSE, "Database not found"))
       ELSE /\ driver_log' = Append(Logged("catalog", <<>>),
                                    [conn |-> conn_wrapper[EngineThread], kind |-> "use", text |-> <<>>])
            /\ BodyGoes("execute")
    /\ db_context' = IF req.database # "" /\ ok /\ DatabaseExists(req.database) THEN Used ELSE db_context
    /\ cursor_open' = TRUE
    /\ BodyFrame
    /\ UNCHANGED <<commits, rowset, fetched, rows, pending, persisted, procVars>>

\* what the cursor can be positioned on: a result set with a row description
\* and so many rows, or one without a description
ResultSetSizes == {NoRowSet, 2}
\* cursor.nextset() returns False
NoMoreSets == -2

\* cursor.fetchall() on a result set of n rows
FetchAll(n) == [i \in 1..n |-> i]

\* mutant of ProcedureExecute: the commit is issued as soon as the call has run
ProcedureExecuteCommits(ok, n) ==
    /\ InBody("run_procedure") /\ epc = "execute"
    /\ ~ok => n = NoRowSet
    /\ driver_log' = Logged("exec", req.text)
    /\ pending' = pending
    /\ db_context' = db_context
    /\ persisted' = IF ok THEN persisted \cup {calls} ELSE persisted
    /\ commits' = IF ok THEN commits + 1 ELSE commits
    /\ driver_sets' = IF ok THEN <<n>> ELSE <<>>
    /\ IF ok THEN BodyGoes("sets") ELSE BodyRaises
    /\ BodyFrame
    /\ UNCHANGED <<rowset, fetched, rows, drained, result_sets, cursor_open>>

\* execute_procedure lines 96-109: cursor.execute("EXEC name ..."), which raises or
\* leaves the cursor on the first result of the procedure
ProcedureExecute(ok, n) ==
    /\ InBody("run_procedure") /\ epc = "execute"
    /\ ~ok => n = NoRowSet
    /\ driver_log' = Logged("exec", req.text)
    /\ pending' = Ran
    /\ db_context' = db_context
    /\ driver_sets' = IF ok THEN <<n>> ELSE <<>>
    /\ IF ok THEN BodyGoes("sets") ELSE BodyRaises
    /\ BodyFrame
    /\ UNCHANGED <<commits, rowset, fetched, rows, persisted, drained, result_sets, cursor_open>>

\* mutant of ProcedureNextSet: a block replaces the blocks collected before it
ProcedureNextSetKeepsLast(ok, next) ==
    /\ InBody("run_procedure") /\ epc = "sets"
    /\ next # NoMoreSets => Len(driver_sets) < MaxSets
    /\ LET n == driver_sets[Len(driver_sets)] IN
        IF ~ok
        THEN /\ BodyRaises
             /\ UNCHANGED <<driver_sets, drained, result_sets>>
        ELSE /\ result_sets' =
                    IF n # NoRowSet
                    THEN <<[rows |-> FetchAll(n), row_count |-> Len(FetchAll(n))]>>
                    ELSE result_sets
             /\ IF next # NoMoreSets
                THEN /\ driver_sets' = Append(driver_sets, next)
                     /\ BodyGoes("sets")
                     /\ UNCHANGED drained
                ELSE /\ drained' = TRUE
                     /\ BodyGoes("commit")
                     /\ UNCHANGED driver_sets
    /\ BodyFrame
    /\ UNCHANGED <<driver_log, commits, rowset, fetched, rows, txVars, cursor_open>>

\* execute_procedure lines 111-130: one turn of `while True`: if cursor.description,
\* the rows are fetched and a block is appended; then cursor.nextset() moves the
\* cursor to the next result set (next), or reports that there is none and the
\* loop ends; fetchall and nextset may raise
ProcedureNextSet(ok, next) ==
    /\ InBody("run_procedure") /\ epc = "sets"
    /\ next # NoMoreSets => Len(driver_sets) < MaxSets
    /\ LET n == driver_sets[Len(driver_sets)] IN
        IF ~ok
        THEN /\ BodyRaises
             /\ UNCHANGED <<driver_sets, drained, result_sets>>
        ELSE /\ result_sets' =
                    IF n # NoRowSet
                    THEN Append(result_sets, [rows |-> FetchAll(n), row_count |-> Len(FetchAll(n))])
                    ELSE result_sets
             /\ IF next # NoMoreSets
                THEN /\ driver_sets' = Append(driver_sets, next)
                     /\ BodyGoes("sets")
                     /\ UNCHANGED drained
                ELSE /\ drained' = TRUE
                     /\ BodyGoes("commit")
                     /\ UNCHANGED driver_sets
    /\ BodyFrame
    /\ UNCHANGED <<driver_log, commits, rowset, fetched, rows, txVars, cursor_open>>

\* execute_procedure lines 132-146: conn.commit(), then the result is returned
ProcedureCommit(ok) ==
    /\ InBody("run_procedure") /\ epc = "commit"
    /\ IF ok
       THEN /\ commits' = commits + 1
            /\ persisted' = Committed
            /\ pending' = [pending EXCEPT ![conn_wrapper[EngineThread]] = {}]
            /\ db_context' = db_context
            /\ BodyReturns([Result(TRUE, "None") EXCEPT !.result_sets = result_sets,
                                                         !.result_set_count = Len(result_sets)])
       ELSE /\ BodyRaises
            /\ UNCHANGED <<commits, txVars>>
    /\ BodyFrame
    /\ UNCHANGED <<driver_log, rowset, fetched, rows, procVars, cursor_open>>

\* the with statement has exited normally: the tool returns its result. No
\* statement of the tool closes the cursor: the local still refers to it when
\* the result is returned
EngineExit ==
    /\ epc = "exiting"
    /\ pc[EngineThread] = "idle"
    /\ epc' = "done"
    /\ UNCHANGED <<poolVars, valVars, write_enabled, req, result, driver_log, commits, acquired, calls,
                   cursorVars, txVars, procVars, cursor_open>>

\* mutant of EngineCatch: the exception is swallowed and success is reported
EngineCatchReportsSuccess ==
    /\ epc \in {"acquiring", "failing"}
    /\ pc[EngineThread] = "idle"
    /\ outcome[EngineThread] = "raised"
    /\ result' = Result(TRUE, "None")
    /\ epc' = "done"
    /\ UNCHANGED <<poolVars, valVars, write_enabled, req, driver_log, commits, acquired, calls,
                   cursorVars, txVars, procVars, cursor_open>>

\* except Exception as e (query.py 95, advanced.py 148 and 264): get_connection raised,
\* on the way in or after the body raised; the tool returns a failure
EngineCatch ==
    /\ epc \in {"acquiring", "failing"}
    /\ pc[EngineThread] = "idle"
    /\ outcome[EngineThread] = "raised"
    /\ result' = [Result(FALSE, "str(e)") EXCEPT !.rollback = (req.tool = "run_write")]
    /\ epc' = "done"
    /\ UNCHANGED <<poolVars, valVars, write_enabled, req, driver_log, commits, acquired, calls,
                   cursorVars, txVars, procVars, cursor_open>>

\* the pool's handler closes the loaned connection (connection.py 116-123), and
\* with it every cursor of that connection
EngineDiscard ==
    /\ ExcClose(EngineThread)
    /\ cursor_open' = FALSE
    /\ UNCHANGED <<valVars, write_enabled, req, epc, result, driver_log, commits, acquired, calls,
                   cursorVars, txVars, procVars>>

\* Init of the engine: the pool is constructed, the write-enable flag is read from the settings
InitEngine ==
    /\ InitPool
    /\ ValidatorIdle
    /\ write_enabled \in BOOLEAN
    /\ req = NoReq /\ epc = "idle" /\ result = NoResult
    /\ driver_log = <<>> /\ commits = 0 /\ acquired = FALSE /\ calls = 0
    /\ max_rows = 0 /\ rowset = NoRowSet /\ fetched = 0 /\ rows = <<>>
    /\ pending = [c \in Conns |-> {}] /\ persisted = {}
    /\ db_context = [c \in Conns |-> DefaultDb]
    /\ driver_sets = <<>> /\ drained = FALSE /\ result_sets = <<>> /\ cursor_open = FALSE

\* the caller is about to take connection c from the idle queue: the only
\* moment at which what happened to an idle connection is looked at
AboutToTake(c) == pc[EngineThread] = "get" /\ pool # <<>> /\ c = Head(pool)

\* the pool's steps of the engine's caller leave the engine alone. Alone in the
\* pool, the caller never finds the queue full on release and is never served
\* while it waits at capacity: those steps need a second caller (see Spec).
\* What happens to an idle connection while it lies in the queue is decided
\* when the caller is about to take it. A fetch of execute_query that raises
\* does so at the first row.
NextEngine ==
    \/ \E q \in QueryTexts, d \in Databases, cap \in 0..MaxCap : RunQuery(q, d, cap)
    \/ \E st \in WriteTexts, d \in Databases, dry \in BOOLEAN : RunWrite(st, d, dry)
    \/ \E n \in ProcedureNames, d \in Databases : RunProcedure(n, d)
    \/ QuerySwitch
    \/ \E ok \in BOOLEAN, n \in QueryRowSets : QueryExecute(ok, n)
    \/ \E ok \in BOOLEAN : (ok \/ fetched = 0) /\ QueryFetch(ok)
    \/ \E ok \in BOOLEAN : WriteSwitch(ok)
    \/ \E ok \in BOOLEAN : WriteExecute(ok)
    \/ \E ok \in BOOLEAN : WriteCommit(ok)
    \/ \E ok \in BOOLEAN : ProcedureSwitch(ok)
    \/ \E ok \in BOOLEAN, n \in ResultSetSizes : ProcedureExecute(ok, n)
    \/ \E ok \in BOOLEAN, next \in ResultSetSizes \cup {NoMoreSets} : ProcedureNextSet(ok, next)
    \/ \E ok \in BOOLEAN : ProcedureCommit(ok)
    \/ EngineExit
    \/ EngineCatch
    \/ GetFromPool(EngineThread) /\ UNCHANGED nonPoolVars
    \/ GetTimeout(EngineThread) /\ UNCHANGED nonPoolVars
    \/ ReplDecRead(EngineThread) /\ UNCHANGED nonPoolVars
    \/ ReplDecWrite(EngineThread) /\ UNCHANGED nonPoolVars
    \/ ReplCreate(EngineThread) /\ UNCHANGED nonPoolVars
    \/ ReplCreateFails(EngineThread) /\ UNCHANGED nonPoolVars
    \/ ReplIncWrite(EngineThread) /\ UNCHANGED nonPoolVars
    \/ EmptyLock(EngineThread) /\ UNCHANGED nonPoolVars
    \/ EmptyCreate(EngineThread) /\ UNCHANGED nonPoolVars
    \/ EmptyCreateFails(EngineThread) /\ UNCHANGED nonPoolVars
    \/ EmptyIncWrite(EngineThread) /\ UNCHANGED nonPoolVars
    \/ Release(EngineThread) /\ UNCHANGED nonPoolVars
    \/ EngineDiscard
    \/ ExcDecRead(EngineThread) /\ UNCHANGED nonPoolVars
    \/ ExcDecWrite(EngineThread) /\ UNCHANGED nonPoolVars
    \/ \E c \in Conns : AboutToTake(c) /\ ConnectionDies(c) /\ UNCHANGED nonPoolVars
    \/ \E c \in Conns : AboutToTake(c) /\ ConnectionExpires(c) /\ UNCHANGED nonPoolVars

SpecEngine == InitEngine /\ [][NextEngine]_vars

----
(***************************************************************************)
(* SpecValidator: validate_query applied to every statement text, in both  *)
(* modes.                                                                  *)
(***************************************************************************)
PoolIdle ==
    /\ pool = <<>> /\ connection_count = 0 /\ lock = None
    /\ pc = [t \in Threads |-> "idle"]
    /\ conn_wrapper = [t \in Threads |-> None]
    /\ conn = [t \in Threads |-> None]
    /\ tmp = [t \in Threads |-> 0]
    /\ cstate = [c \in Conns |-> "none"]
    /\ exc = [t \in Threads |-> "none"]
    /\ decs = [c \in Conns |-> 0]
    /\ outcome = [t \in Threads |-> "none"]

InitValidator ==
    /\ query \in Statements
    /\ allow_write \in BOOLEAN
    /\ verdict = Unset
    /\ identifier = <<>> /\ identifier_ok = "unset"
    /\ ExecIdle
    /\ PoolIdle
    /\ EngineIdle
    /\ FacadeIdle

\* QueryValidator(allow_write).validate_query(query)
Validate ==
    /\ verdict = Unset
    /\ verdict' = validate_query(query, allow_write)
    /\ UNCHANGED <<query, allow_write, identifier, identifier_ok, execVars, facadeVars, poolVars, engVars>>

SpecValidator == InitValidator /\ [][Validate]_vars

----
(***************************************************************************)
(* SpecIdentifier: _is_valid_identifier applied to every name built from   *)
(* at most MaxNameFrags fragments, to the names of the test suite and to   *)
(* names at the length limit.                                              *)
(***************************************************************************)
NameFrags ==
    { <<"[">>, <<"]">>, <<".">>, <<"_">>, <<";">>, <<" ">>, <<"d","b","o">>, <<"C","1">> }

FragNames == UNION {{Flatten(fs) : fs \in [1..n -> NameFrags]} : n \in 0..MaxNameFrags}

\* a name of n letters
LongName(n) == [i \in 1..n |-> "a"]

Names ==
    FragNames \cup {n_plain, n_bracketed, n_three_parts, n_injection}
              \cup {LongName(MaxIdentifierLen), LongName(MaxIdentifierLen + 1)}

InitIdentifier ==
    /\ identifier \in Names
    /\ identifier_ok = "unset"
    /\ query = <<>> /\ allow_write = FALSE /\ verdict = Unset
    /\ ExecIdle
    /\ PoolIdle
    /\ EngineIdle
    /\ FacadeIdle

\* _is_valid_identifier(identifier)
CheckIdentifier ==
    /\ identifier_ok = "unset"
    /\ identifier_ok' = IF is_valid_identifier(identifier) THEN "True" ELSE "False"
    /\ UNCHANGED <<identifier, query, allow_write, verdict, execVars, facadeVars, poolVars, engVars>>

SpecIdentifier == InitIdentifier /\ [][CheckIdentifier]_vars

----
(***************************************************************************)
(* SpecExecText: the text and the values execute_procedure hands to        *)
(* cursor.execute, for procedure names and parameter dictionaries of at    *)
(* most MaxParams items.                                                   *)
(***************************************************************************)
\* "id"
k_id == <<"i","d">>
\* "name"
k_name == <<"n","a","m","e">>
\* "id = 1; DROP TABLE T; DECLARE @x int; SET @x"
k_injection ==
    <<"i","d"," ","="," ","1",";"," ","D","R","O","P"," ","T","A","B","L","E"," ","T",";"," ",
      "D","E","C","L","A","R","E"," ","@","x"," ","i","n","t",";"," ","S","E","T"," ","@","x">>

\* the keys and the values of the parameters dictionary
ParamKeys == {k_id, k_name, k_injection}
ParamValues == {"1", "O'Brien"}

\* the dictionaries of at most MaxParams items: the keys of a dictionary are distinct
ParamDicts ==
    UNION {{p \in [1..k -> [key : ParamKeys, value : ParamValues]] :
                \A i, j \in 1..k : p[i].key = p[j].key => i = j} : k \in 0..MaxParams}

\* ', '.join(param_list)
RECURSIVE join_comma(_)
join_comma(param_list) ==
    IF param_list = <<>> THEN <<>>
    ELSE IF Len(param_list) = 1 THEN Head(param_list)
    ELSE Head(param_list) \o <<",", " ">> \o join_comma(Tail(param_list))

\* execute_procedure lines 97-109: the text of the EXEC statement
exec_text(name, params) ==
    IF params # <<>>
    THEN LET param_list == [i \in 1..Len(params) |-> <<"@">> \o params[i].key \o <<" ", "=", " ", "?">>] IN
         kw_EXEC \o <<" ">> \o name \o <<" ">> \o join_comma(param_list)
    ELSE kw_EXEC \o <<" ">> \o name

InitExecText ==
    /\ procedure_name \in ProcedureNames \cup {n_bracketed, n_three_parts}
    /\ parameters \in ParamDicts
    /\ exec_statement = Unbuilt /\ param_values = <<>>
    /\ query = <<>> /\ allow_write = FALSE /\ verdict = Unset
    /\ identifier = <<>> /\ identifier_ok = "unset"
    /\ PoolIdle
    /\ EngineIdle
    /\ FacadeIdle

\* execute_procedure lines 68-109 with the feature enabled: a name that fails
\* _is_valid_identifier is refused and nothing is sent; otherwise the EXEC
\* statement is built and executed with the values bound to its markers
BuildExec ==
    /\ exec_statement = Unbuilt
    /\ IF ~is_valid_identifier(procedure_name)
       THEN /\ exec_statement' = <<>>
            /\ param_values' = <<>>
       ELSE /\ exec_statement' = exec_text(procedure_name, parameters)
            /\ param_values' = [i \in 1..Len(parameters) |-> parameters[i].value]
    /\ UNCHANGED <<procedure_name, parameters, query, allow_write, verdict, identifier, identifier_ok,
                   facadeVars, poolVars, engVars>>

SpecExecText == InitExecText /\ [][BuildExec]_vars

----
(***************************************************************************)
(* SpecSingleton: get_db_connection called by several threads, one step    *)
(* per read or write of the class attributes _instance and _pool.          *)
(* spc: idle -> get_instance -> (got | init -> (construct -> set_pool ->)  *)
(*      set_instance -> got) -> idle                                       *)
(***************************************************************************)
SingletonFrame == UNCHANGED <<poolVars, engVars, query, allow_write, verdict, identifier,
                              identifier_ok, execVars, statsVars>>

\* connection.py 249-250: get_db_connection() calls DatabaseConnection.get_instance()
GetDbConnection(t) ==
    /\ spc[t] = "idle"
    /\ spc' = [spc EXCEPT ![t] = "get_instance"]
    /\ UNCHANGED <<cls_instance, cls_pool, constructed, used_pool>>
    /\ SingletonFrame

\* line 185: if cls._instance is None; DatabaseConnection() is entered, or line 187 returns
CheckInstance(t) ==
    /\ spc[t] = "get_instance"
    /\ spc' = [spc EXCEPT ![t] = IF cls_instance = None THEN "init" ELSE "got"]
    /\ UNCHANGED <<cls_instance, cls_pool, constructed, used_pool>>
    /\ SingletonFrame

\* lines 169-172: __init__ reads the settings, then: if DatabaseConnection._pool is None
CheckPool(t) ==
    /\ spc[t] = "init"
    /\ spc' = [spc EXCEPT ![t] = IF cls_pool = None THEN "construct" ELSE "set_instance"]
    /\ UNCHANGED <<cls_instance, cls_pool, constructed, used_pool>>
    /\ SingletonFrame

\* lines 173-179: ConnectionPool(...) runs its constructor, which opens min_size connections
ConstructPool(t) ==
    /\ spc[t] = "construct"
    /\ constructed' = constructed \cup {t}
    /\ spc' = [spc EXCEPT ![t] = "set_pool"]
    /\ UNCHANGED <<cls_instance, cls_pool, used_pool>>
    /\ SingletonFrame

\* line 173: the store to DatabaseConnection._pool
SetPool(t) ==
    /\ spc[t] = "set_pool"
    /\ cls_pool' = t
    /\ spc' = [spc EXCEPT ![t] = "set_instance"]
    /\ UNCHANGED <<cls_instance, constructed, used_pool>>
    /\ SingletonFrame

\* line 186: the store to cls._instance
SetInstance(t) ==
    /\ spc[t] = "set_instance"
    /\ cls_instance' = t
    /\ spc' = [spc EXCEPT ![t] = "got"]
    /\ UNCHANGED <<cls_pool, constructed, used_pool>>
    /\ SingletonFrame

\* lines 204-211: the caller's db.get_connection() reads self._pool, which is the class attribute
UsePool(t) ==
    /\ spc[t] = "got"
    /\ used_pool' = [used_pool EXCEPT ![t] = cls_pool]
    /\ spc' = [spc EXCEPT ![t] = "idle"]
    /\ UNCHANGED <<cls_instance, cls_pool, constructed>>
    /\ SingletonFrame

InitSingleton == PoolIdle /\ ValidatorIdle /\ EngineIdle

NextSingleton ==
    \/ \E t \in Threads : GetDbConnection(t)
    \/ \E t \in Threads : CheckInstance(t)
    \/ \E t \in Threads : CheckPool(t)
    \/ \E t \in Threads : ConstructPool(t)
    \/ \E t \in Threads : SetPool(t)
    \/ \E t \in Threads : SetInstance(t)
    \/ \E t \in Threads : UsePool(t)

SpecSingleton == InitSingleton /\ [][NextSingleton]_vars

----
(***************************************************************************)
(* SpecStats: get_stats called by a monitoring thread while the callers of *)
(* the pool acquire and release connections. The dictionary is built from  *)
(* two reads of shared state: _connection_count, then _pool.qsize().       *)
(***************************************************************************)
StatsFrame == UNCHANGED <<poolVars, engVars, query, allow_write, verdict, identifier,
                          identifier_ok, execVars, singletonVars>>

\* line 158: 'total_connections': self._connection_count, read without the lock
StatsReadCount ==
    /\ mpc = "idle"
    /\ total_read' = connection_count
    /\ stats' = NoStats
    /\ mpc' = "qsize"
    /\ StatsFrame

\* mutant of StatsReadQsize: the dictionary is built under self._lock
StatsReadQsizeLocked ==
    /\ mpc = "qsize"
    /\ lock = None
    /\ stats' = [total_connections |-> total_read, available_connections |-> Len(pool),
                 max_connections |-> max_size, min_connections |-> min_size, returned |-> TRUE]
    /\ total_read' = 0
    /\ mpc' = "idle"
    /\ StatsFrame

\* lines 159-162: self._pool.qsize(), self.max_size, self.min_size; the dictionary is returned
StatsReadQsize ==
    /\ mpc = "qsize"
    /\ stats' = [total_connections |-> total_read, available_connections |-> Len(pool),
                 max_connections |-> max_size, min_connections |-> min_size, returned |-> TRUE]
    /\ total_read' = 0
    /\ mpc' = "idle"
    /\ StatsFrame

\* the callers acquire, use, release and discard connections; no idle session
\* dies or expires and close_all is not called
NextStats ==
    \/ StatsReadCount
    \/ StatsReadQsize
    \/ \E t \in Threads : StartAcquire(t) /\ UNCHANGED nonPoolVars
    \/ \E t \in Threads : GetFromPool(t) /\ UNCHANGED nonPoolVars
    \/ \E t \in Threads : GetTimeout(t) /\ UNCHANGED nonPoolVars
    \/ \E t \in Threads : EmptyLock(t) /\ UNCHANGED nonPoolVars
    \/ \E t \in Threads : EmptyCreate(t) /\ UNCHANGED nonPoolVars
    \/ \E t \in Threads : EmptyIncWrite(t) /\ UNCHANGED nonPoolVars
    \/ \E t \in Threads : WaitGet(t) /\ UNCHANGED nonPoolVars
    \/ \E t \in Threads : UseOk(t) /\ UNCHANGED nonPoolVars
    \/ \E t \in Threads : Release(t) /\ UNCHANGED nonPoolVars
    \/ \E t \in Threads : EmptyCreateFails(t) /\ UNCHANGED nonPoolVars
    \/ \E t \in Threads : UseRaise(t) /\ UNCHANGED nonPoolVars
    \/ \E t \in Threads : ExcClose(t) /\ UNCHANGED nonPoolVars
    \/ \E t \in Threads : ExcDecRead(t) /\ UNCHANGED nonPoolVars
    \/ \E t \in Threads : ExcDecWrite(t) /\ UNCHANGED nonPoolVars

SpecStats == Init /\ [][NextStats]_vars

----
(***************************************************************************)
(* Claims about the pool.                                                  *)
(***************************************************************************)
OnLoan(t) == pc[t] = "loaned"
OnLoanCount == Cardinality({t \in Threads : OnLoan(t)})
IdleCount == Len(pool)
\* no caller is part-way through an acquire, release, discard or close_all step
Quiescent == \A t \in Threads : pc[t] \in {"idle", "loaned"}

\* C1: the connections idle in the queue plus those on loan never number more
\* than max_size, and the tracked count never exceeds max_size.
C1_Capacity ==
    /\ IdleCount + OnLoanCount <= max_size
    /\ connection_count <= max_size

\* C2: no two callers hold the same connection on loan, and a connection on
\* loan is not in the idle queue (so it cannot be handed out again before its
\* holder releases it); the queue holds no connection twice.
C2_LoanExclusive ==
    /\ \A t, u \in Threads :
        (t # u /\ OnLoan(t) /\ OnLoan(u)) => conn_wrapper[t] # conn_wrapper[u]
    /\ \A t \in Threads : OnLoan(t) => conn_wrapper[t] \notin Range(pool)
    /\ \A i, j \in 1..Len(pool) : i # j => pool[i] # pool[j]

\* C2's case: two callers acquired concurrently; one holds the connection on
\* loan and the other, having found the queue empty, waits for it
C2_Witness ==
    \E t, u \in Threads : t # u /\ OnLoan(t) /\ pc[u] = "wait"

\* C3: whenever no caller is part-way through a pool operation, the count equals
\* the number of connections idle or on loan, and the count is never negative.
C3_CountBookkeeping ==
    /\ Quiescent => connection_count = IdleCount + OnLoanCount
    /\ connection_count >= 0

\* C4: a connection handed to a caller was valid when it was taken from the
\* idle queue, on every path that takes one from the queue: no connection that
\* is dead or past its lifetime is on loan.
C4_ValidatedBeforeLoan ==
    \A t \in Threads : OnLoan(t) => cstate[conn_wrapper[t]] = "ok"

\* a closed connection is neither idle in the queue nor on loan
ClosedNeverReused ==
    \A c \in Conns : cstate[c] = "closed" =>
        /\ c \notin Range(pool)
        /\ \A t \in Threads : OnLoan(t) => conn_wrapper[t] # c

\* the handler of an exception raised by the caller's use finishes
UseRaiseHandled(t) == exc[t] = "use" /\ pc[t] = "exc_dec_w" /\ pc'[t] = "idle"

\* C5: when the caller's use of a loaned connection raises, the handler closes
\* that connection, decrements the count once for it, does not put it in the
\* idle queue, and re-raises; a closed connection is never idle nor on loan again.
C5_DiscardOnRaise ==
    /\ []ClosedNeverReused
    /\ [][\A t \in Threads : UseRaiseHandled(t) =>
            LET c == conn_wrapper[t] IN
            /\ c # None
            /\ cstate'[c] = "closed"
            /\ connection_count' = tmp[t] - 1
            /\ decs'[c] = 1
            /\ c \notin Range(pool')
            /\ outcome'[t] = "raised"]_vars

\* C5's case: a caller's use raised and its handler has finished
C5_Witness ==
    \E t \in Threads, c \in Conns :
        /\ outcome[t] = "raised"
        /\ cstate[c] = "closed"
        /\ decs[c] = 1

\* C6: under fair scheduling a caller waiting at capacity eventually leaves the
\* wait with a connection.
C6_BackpressureTransient ==
    \A t \in Threads : (pc[t] = "wait") ~> (pc[t] = "loaned")

\* the statement was rejected at admission: by the validator or the DML
\* leading-keyword check (run_query, run_write), by identifier validation
\* (run_procedure)
RejectedAtAdmission ==
    \/ req.tool = "run_query" /\ ~validate_query(req.text, write_enabled).is_valid
    \/ req.tool = "run_write"
        /\ (~validate_query(req.text, TRUE).is_valid \/ ~IsDml(req.text))
    \/ req.tool = "run_procedure" /\ ~is_valid_identifier(req.text)

\* C7: a call rejected at admission acquires no connection from the pool and
\* never invokes the driver's execute; it returns a failure.
C7_RejectedNeverReachesDatabase ==
    RejectedAtAdmission =>
        /\ ~acquired
        /\ driver_log = <<>>
        /\ pc[EngineThread] = "idle"
        /\ epc = "done"
        /\ ~result.success

\* a write statement that failed validation was rejected after an earlier call
\* had used a connection, with writes enabled
C7_Witness ==
    /\ calls = MaxCalls
    /\ epc = "done"
    /\ write_enabled
    /\ req.tool = "run_write"
    /\ RejectedAtAdmission
    /\ connection_count > 0

\* C8: with allow_write = false, a statement validate accepts begins, after
\* trimming whitespace, with SELECT or WITH (case-insensitive).
C8_ReadOnlyLeadingKeyword ==
    (verdict # Unset /\ ~allow_write /\ verdict.is_valid) => StartsReadOnly(upper(query))

\* the data-modifying and schema-altering keywords
WriteKeywords ==
    {kw_INSERT, kw_UPDATE, kw_DELETE, kw_DROP, kw_TRUNCATE, kw_ALTER, kw_CREATE,
     kw_GRANT, kw_REVOKE, kw_EXEC, kw_EXECUTE}

\* C9: with the write-enable flag off, no statement run_query executes on a
\* connection contains a data-modifying or schema-altering keyword as a whole
\* word, wherever in the statement it appears.
C9_SelectOnlyByDefault ==
    (req.tool = "run_query" /\ ~write_enabled) =>
        \A i \in 1..Len(driver_log) :
            driver_log[i].kind = "statement" =>
                \A kw \in WriteKeywords : ~search_word_ignorecase(driver_log[i].text, kw)

\* position i of s lies outside every single-quoted literal, the quotes counted
\* from the start of the text
OutsideLiteral(s, i) == Cardinality({j \in 1..(i - 1) : s[j] = "'"}) % 2 = 0

SemicolonOutsideLiteral(s) == \E i \in 1..Len(s) : s[i] = ";" /\ OutsideLiteral(s, i)

\* C10: in both modes validate rejects with "Multiple statements are not
\* allowed" exactly the non-empty statements with a semicolon outside every
\* single-quoted literal, the quotes tracked from the start of the text.
C10_MultiStatementRule ==
    (verdict # Unset /\ strip(query) # <<>>) =>
        ((verdict.error = "Multiple statements are not allowed")
            <=> SemicolonOutsideLiteral(query))

\* C11: with allow_write = false, a statement that contains xp_cmdshell anywhere
\* in its text, in any letter case, is rejected, also when it begins with SELECT
\* or WITH.
C11_ShellProcedureRejected ==
    (verdict # Unset /\ ~allow_write /\ contains(upper(query), upper(kw_xp_cmdshell)))
        => ~verdict.is_valid

\* a statement that begins with SELECT and names the procedure in mixed case was
\* rejected by the last check of validate_query
C11_Witness ==
    /\ verdict # Unset /\ ~allow_write
    /\ startswith(strip(query), kw_SELECT)
    /\ contains(query, xp_cmdshell_mixed)
    /\ verdict.error = "Dangerous stored procedure execution is not allowed"

\* a segment with its single surrounding pair of brackets, if it has one, removed
WithoutBracketPair(seg) ==
    IF Len(seg) >= 2 /\ seg[1] = "[" /\ seg[Len(seg)] = "]"
    THEN SubSeq(seg, 2, Len(seg) - 1)
    ELSE seg

\* the names described as valid: length 1..256, at most one dot, every segment
\* non-empty and alphanumeric or underscore once a surrounding pair is removed
WellFormedIdentifier(n) ==
    /\ Len(n) \in 1..256
    /\ Cardinality({i \in 1..Len(n) : n[i] = "."}) <= 1
    /\ \A k \in 1..Len(split_dot(n)) :
        LET core == WithoutBracketPair(split_dot(n)[k]) IN
        /\ core # <<>>
        /\ \A i \in 1..Len(core) : IsAlnum(core[i]) \/ core[i] = "_"

\* C12: the identifier validator accepts a name exactly when it is well formed;
\* segments with unbalanced or repeated brackets are rejected.
C12_IdentifierValidator ==
    identifier_ok # "unset" => (identifier_ok = "True" <=> WellFormedIdentifier(identifier))

\* the call in progress is a run_query naming a database the server does not have
QueryOnAbsentDatabase ==
    req.tool = "run_query" /\ req.database # "" /\ ~DatabaseExists(req.database)

\* C13: run_query with a target database that is absent from the server catalog
\* attempts no context switch and no statement execution, and its result is a
\* "database not found" failure.
C13_DatabaseVerifiedBeforeSwitch ==
    QueryOnAbsentDatabase =>
        /\ \A i \in 1..Len(driver_log) : driver_log[i].kind \notin {"use", "statement"}
        /\ (epc = "done" /\ driver_log # <<>>) => result.error = "Database not found"

\* run_query has returned the rows of a row set
ReturnedRows ==
    /\ req.tool = "run_query" /\ epc \in {"exiting", "done"}
    /\ result.success /\ rowset # NoRowSet

Min(a, b) == IF a <= b THEN a ELSE b

C15_StopsAtCap ==
    (ReturnedRows /\ rowset > max_rows) => fetched = max_rows

\* C16: when a statement admitted by run_query produces no row set, run_query
\* commits it on that connection before the connection is released.
C16_CommitWithoutRowSet ==
    (/\ req.tool = "run_query" /\ epc \in {"exiting", "done"}
     /\ result.success /\ rowset = NoRowSet) =>
        commits > 0 /\ calls \in persisted

\* run_write has returned success:false with rollback:true
RolledBack ==
    req.tool = "run_write" /\ epc = "done" /\ ~result.success /\ result.rollback

\* the statement of call k is in no transaction that is still open
Abandoned(k) ==
    /\ k \notin persisted
    /\ \A c \in Conns : k \in pending[c] => (cstate[c] = "closed" /\ c \notin Range(pool))

\* C17: when run_write returns success:false with rollback:true, no commit was
\* issued for its statement and the connection it ran on is destroyed, not
\* returned to the pool; and a statement in that condition is never made
\* persistent by a later operation.
C17_FailedWritePersistsNothing ==
    /\ [](RolledBack => (commits = 0 /\ Abandoned(calls)))
    /\ [][\A k \in 1..calls : Abandoned(k) => k \notin persisted']_vars

\* a write whose statement had run was rolled back: its connection is closed
C17_Witness ==
    /\ RolledBack
    /\ \E c \in Conns : calls \in pending[c] /\ cstate[c] = "closed"

\* C18: with the write-enable flag off, run_write and run_procedure return
\* success:false with an explanatory error for every input and touch no
\* connection.
C18_FeatureGate ==
    (~write_enabled /\ req.tool \in {"run_write", "run_procedure"}) =>
        /\ epc = "done"
        /\ ~result.success
        /\ result.error \in {"Write operations are disabled", "Stored procedure execution is disabled"}
        /\ ~acquired
        /\ driver_log = <<>>
        /\ pc[EngineThread] = "idle"

\* a valid procedure name was turned away with the flag off, after an earlier call
C18_Witness ==
    /\ ~write_enabled /\ calls = MaxCalls
    /\ req.tool = "run_procedure" /\ is_valid_identifier(req.text)
    /\ epc = "done" /\ ~result.success

\* the trimmed, upper-cased text begins with INSERT, UPDATE or DELETE
BeginsWithDml(text) ==
    \E kw \in {kw_INSERT, kw_UPDATE, kw_DELETE} : startswith(upper(strip(text)), kw)

\* C19: run_write with dry_run = true never acquires a connection and never
\* invokes the driver; for a statement that passes validation and the DML check
\* it reports success:true, dry_run:true.
C19_DryRun ==
    (req.tool = "run_write" /\ req.dry_run) =>
        /\ ~acquired
        /\ driver_log = <<>>
        /\ pc[EngineThread] = "idle"
        /\ epc = "done"
        /\ (write_enabled /\ validate_query(req.text, TRUE).is_valid /\ BeginsWithDml(req.text))
                => (result.success /\ result.dry_run)

\* a dry run of a valid DML statement succeeded while the pool had a connection
C19_Witness ==
    /\ req.tool = "run_write" /\ req.dry_run
    /\ result.success /\ result.dry_run /\ result.validation = "passed"
    /\ connection_count > 0

\* C20: with writes enabled, a run_write statement reaches a connection only if
\* its trimmed, upper-cased text begins with INSERT, UPDATE or DELETE; any other
\* statement the validator admitted is rejected with validation:"failed".
C20_StrictDml ==
    (req.tool = "run_write" /\ write_enabled) =>
        /\ (acquired \/ driver_log # <<>>) => BeginsWithDml(req.text)
        /\ (validate_query(req.text, TRUE).is_valid /\ ~BeginsWithDml(req.text))
                => (epc = "done" /\ ~result.success /\ result.validation = "failed")

\* a statement the validator admits in write mode, not DML, was rejected
C20_Witness ==
    /\ req.tool = "run_write" /\ write_enabled /\ epc = "done"
    /\ validate_query(req.text, TRUE).is_valid /\ ~BeginsWithDml(req.text)
    /\ result.validation = "failed"

\* C23: every destruction decrements the count exactly once, on every path: no
\* connection is decremented for twice, also when the replacement of an invalid
\* connection fails to be created.
C23_DecrementOnce == \A c \in Conns : decs[c] <= 1

\* the connections created so far (a connect succeeded)
Created == Cardinality({c \in Conns : cstate[c] # "none"})

RECURSIVE DecrementsUpTo(_)
DecrementsUpTo(n) == IF n = 0 THEN 0 ELSE decs[n] + DecrementsUpTo(n - 1)
\* the decrements completed so far
Decrements == DecrementsUpTo(MaxConns)

\* a caller stands between the read and the write of an update of the count
UpdateInFlight(t) ==
    pc[t] \in {"repl_dec_w", "repl_inc_w", "empty_inc_w", "exc_dec_w", "ovf_dec_w", "ca_dec_w"}

\* once the updates begun are complete, the count is the number of creations
\* minus the number of decrements
NoLostUpdate ==
    (\A t \in Threads : ~UpdateInFlight(t)) => connection_count = Created - Decrements

\* C24: every read-modify-write of the count is made holding the pool mutex,
\* and no update is lost: once the updates begun are complete, the count is the
\* number of creations minus the number of decrements.
C24_CountUpdatesSerialized ==
    /\ \A t \in Threads : UpdateInFlight(t) => lock = t
    /\ NoLostUpdate

Idle(c) == c \in Range(pool)
Held(c) == \E t \in Threads : conn_wrapper[t] = c \/ conn[t] = c
Destroyed(c) == cstate[c] = "closed"

\* C25: a connection the pool created is in exactly one of the states idle in
\* the queue, on loan (in the hands of one caller, open), destroyed; a destroyed
\* connection is not in the queue and is not yielded.
C25_StateExclusive ==
    \A c \in Conns : cstate[c] # "none" =>
        /\ Idle(c) \/ Held(c) \/ Destroyed(c)
        /\ ~(Idle(c) /\ Held(c))
        /\ ~(Idle(c) /\ Destroyed(c))
        /\ Destroyed(c) => \A t \in Threads : OnLoan(t) => conn_wrapper[t] # c

\* a release is under way
\* one connection idle, one on loan and one destroyed, all at once
C25_Witness ==
    \E a, b, c \in Conns :
        /\ Idle(a) /\ cstate[a] # "closed"
        /\ \E t \in Threads : OnLoan(t) /\ conn_wrapper[t] = b
        /\ Destroyed(c) /\ ~Idle(c) /\ ~Held(c)

Releasing(t) == pc[t] \in {"release", "ovf_dec_r", "ovf_dec_w"}

\* C26: a release on the normal path, begun, completes without waiting for
\* another caller: the push does not block, and a full queue leads to close and
\* decrement.
C26_ReleaseNeverBlocks ==
    \A t \in Threads : Releasing(t) ~> (pc[t] = "idle")

----
\* the tool call has returned
Returned(tool) == epc = "done" /\ req.tool = tool
\* the call went into `with db.get_connection()` and an exception came out of it
RaisedInWith == acquired /\ outcome[EngineThread] = "raised"
\* the connection the call's statements ran on
UsedConnection == driver_log[1].conn
IsDescribed(n) == n # NoRowSet
\* the result sets with a row description among those the driver exposed
Described == SelectSeq(driver_sets, IsDescribed)

\* C21: a run_procedure call that succeeds has read the result sets to the end,
\* result_set_count is the number of blocks in result_sets, which is the number
\* of result sets with a row description that the driver exposed, in their
\* order, and each block's row_count is the length of its rows.
C21_ResultSetsCollected ==
    (Returned("run_procedure") /\ result.success) =>
        /\ drained
        /\ result.result_set_count = Len(result.result_sets)
        /\ Len(result.result_sets) = Len(Described)
        /\ \A i \in 1..Len(result.result_sets) :
            /\ result.result_sets[i].row_count = Len(result.result_sets[i].rows)
            /\ i <= Len(Described) => Len(result.result_sets[i].rows) = Described[i]

\* a procedure call that produced two result sets with a description
C21_Witness ==
    /\ Returned("run_procedure") /\ result.success
    /\ result.result_set_count = 2
    /\ result.result_sets[2].row_count = 2

\* C22: every tool call that has returned gave a structured result with a boolean
\* success; when acquiring the connection, switching database, executing,
\* fetching or committing raised, the result is success false with an error
\* message, and no exception is left unhandled.
C22_StructuredOutcome ==
    /\ epc = "done" =>
        /\ result # NoResult
        /\ result.success \in BOOLEAN
        /\ ~result.success => result.error \notin {"None", "unset"}
    /\ (epc = "done" /\ RaisedInWith) => ~result.success
    /\ (epc \in {"acquiring", "failing"} /\ pc[EngineThread] = "idle") =>
            outcome[EngineThread] = "raised" /\ ENABLED EngineCatch

\* a run_query call whose statement ran and whose fetch raised
C22_Witness ==
    /\ Returned("run_query") /\ RaisedInWith
    /\ rowset > 0 /\ fetched = 0

\* C27: when a tool call has returned, the caller holds no connection: every
\* open connection lies in the idle queue; the connection the call used is back
\* in the queue after a normal exit of the with statement (the early
\* database-not-found return included) and closed after an exception.
C27_NoLeakFromEngine ==
    epc = "done" =>
        /\ pc[EngineThread] = "idle"
        /\ conn_wrapper[EngineThread] = None
        /\ \A c \in Conns : Open(c) => c \in Range(pool)
        /\ (acquired /\ driver_log # <<>>) =>
                IF outcome[EngineThread] = "raised"
                THEN cstate[UsedConnection] = "closed" /\ UsedConnection \notin Range(pool)
                ELSE Open(UsedConnection) /\ UsedConnection \in Range(pool)

\* a call that returned "Database not found" from inside the with statement
C27_Witness ==
    /\ epc = "done" /\ acquired
    /\ result.error = "Database not found"
    /\ UsedConnection \in Range(pool)

\* C28: when a tool call has returned, the cursor it obtained has been closed.
C28_CursorClosed == epc = "done" => ~cursor_open

\* C29: run_procedure commits at most once, and only after nextset has
\* reported no further result set; a call that succeeded committed once; when
\* a step raised, nothing was committed and the connection was closed.
C29_CommitOnceAfterDrain ==
    req.tool = "run_procedure" =>
        /\ commits <= 1
        /\ commits = 1 => drained
        /\ (epc = "done" /\ result.success) => commits = 1
        /\ (epc = "done" /\ RaisedInWith) =>
                /\ commits = 0
                /\ driver_log # <<>> => cstate[UsedConnection] = "closed"

\* a procedure call that raised while its second result set was read
C29_Witness ==
    /\ Returned("run_procedure") /\ RaisedInWith
    /\ Len(driver_sets) = 2 /\ ~drained

\* a statement text was handed to the driver
Sent == exec_statement \notin {Unbuilt, <<>>}
\* the same dictionary with other values
SameKeys(p) == {q \in ParamDicts : Len(q) = Len(p) /\ \A i \in 1..Len(p) : q[i].key = p[i].key}

\* C30: in the text run_procedure sends, the procedure name has passed
\* identifier validation, the text is the same whatever the argument values
\* are, the values are bound to the markers in order, and every parameter name
\* put into the text is a valid identifier.
C30_OnlyValidatedText ==
    Sent =>
        /\ is_valid_identifier(procedure_name)
        /\ \A q \in SameKeys(parameters) : exec_text(procedure_name, q) = exec_statement
        /\ Len(param_values) = Len(parameters)
        /\ \A i \in 1..Len(parameters) : is_valid_identifier(parameters[i].key)

----
EmptyReason == "Query cannot be empty"
MultiReason == "Multiple statements are not allowed"
WriteReason == "Write operations (INSERT, UPDATE) are not allowed in read-only mode"
DenyReason == "Operation not allowed: "

\* kw occurs in the statement as a whole word, in any letter case
HasWord(s, kw) == search_word(upper(s), upper(kw))
\* the statement begins with SELECT or WITH, in any letter case
BeginsReadOnly(s) ==
    startswith(upper(strip(s)), kw_SELECT) \/ startswith(upper(strip(s)), kw_WITH)
\* the deny-list entries that occur in the statement as whole words
DenyMatches(s) == {k \in 1..Len(DANGEROUS_PATTERNS) : HasWord(s, DANGEROUS_PATTERNS[k])}
HasForbiddenKeyword(s) ==
    DenyMatches(s) # {} \/ HasWord(s, kw_INSERT) \/ HasWord(s, kw_UPDATE)

\* C31: the rules apply in the order empty, multi-statement, read-only checks
\* and the first that fails gives the reason: a whitespace-only statement is
\* refused as empty, a statement with an unquoted semicolon and a forbidden
\* keyword as multiple statements, and an accepted statement has no reason.
C31_RuleOrder ==
    verdict # Unset =>
        /\ strip(query) = <<>> => verdict.error = EmptyReason
        /\ (strip(query) # <<>> /\ SemicolonOutsideLiteral(query) /\ HasForbiddenKeyword(query))
                => verdict.error = MultiReason
        /\ verdict.is_valid <=> verdict.error = "None"

\* C32: with allow_write false, a statement that does not begin with SELECT or
\* WITH and reaches the read-only checks is refused with the write-operations
\* reason exactly when INSERT or UPDATE occurs in it as a whole word.
C32_WriteWordRule ==
    (verdict # Unset /\ ~allow_write /\ ~BeginsReadOnly(query)
        /\ verdict.error \notin {EmptyReason, MultiReason}) =>
            (verdict.error = WriteReason <=> (HasWord(query, kw_INSERT) \/ HasWord(query, kw_UPDATE)))

----
\* thread t takes a step of close_all
CloseAllStep(t) == pc[t] \in {"ca_loop", "ca_dec_r", "ca_dec_w"} /\ pc'[t] # pc[t]
\* thread t finds the queue empty and returns from close_all
CloseAllReturns(t) == pc[t] = "ca_loop" /\ pc'[t] = "idle"

\* C34: close_all does not touch a connection on loan, and when it returns
\* while no other operation is in progress the idle queue is empty and the
\* count equals the number of connections on loan.
C34_CloseAllDrains ==
    [][\A t \in Threads :
        /\ CloseAllStep(t) =>
              \A u \in Threads : OnLoan(u) =>
                  /\ OnLoan(u)'
                  /\ conn_wrapper'[u] = conn_wrapper[u]
                  /\ cstate'[conn_wrapper[u]] = cstate[conn_wrapper[u]]
        /\ (CloseAllReturns(t) /\ Quiescent') =>
              /\ pool' = <<>>
              /\ connection_count' = OnLoanCount']_vars

----
\* the pool as its constructor leaves it, whatever number of connections warm-up created
Constructed ==
    /\ \A t \in Threads : pc[t] = "idle" /\ conn_wrapper[t] = None
    /\ lock = None
    /\ Len(pool) <= min_size
    /\ connection_count = Len(pool)
    /\ Created = Len(pool)
    /\ \A c \in Range(pool) : cstate[c] = "ok"

\* C35: construction completes when warm-up creates fewer than min_size
\* connections, with the count and the idle queue holding exactly the ones
\* created; afterwards a caller that finds the queue empty below max_size is
\* sent to create a connection, never to wait, and the connection it creates
\* is a new, open one that it gets on loan with the count raised by one.
C35_WarmupNotFatal ==
    /\ Constructed
    /\ [][\A t \in Threads :
            /\ (pc[t] = "empty_lock" /\ pc'[t] # "empty_lock") =>
                  pc'[t] = (IF connection_count < max_size THEN "empty_create" ELSE "wait")
            /\ (pc[t] = "empty_create" /\ pc'[t] = "empty_inc_w") =>
                  /\ cstate[conn'[t]] = "none" /\ cstate'[conn'[t]] = "ok"
                  /\ conn'[t] \notin Range(pool)
            /\ (pc[t] = "empty_inc_w" /\ pc'[t] # "empty_inc_w") =>
                  /\ OnLoan(t)' /\ conn_wrapper'[t] = conn[t]
                  /\ cstate'[conn[t]] = "ok"
                  /\ connection_count' = tmp[t] + 1]_vars

\* warm-up created nothing and a caller has created connection 1 on demand
C35_Witness ==
    \E t \in Threads :
        /\ pc[t] = "empty_inc_w" /\ conn[t] = 1 /\ cstate[1] = "ok"
        /\ connection_count = 0 /\ pool = <<>> /\ Created = 1

----
\* C37: a connection in the idle queue has no uncommitted statement of any
\* call, and a commit makes persistent the statement of the call that issues
\* it only, never the statement of an earlier call.
C37_NoUncommittedWorkIdle ==
    /\ [](\A c \in Range(pool) : pending[c] = {})
    /\ [][persisted' \subseteq persisted \cup {calls'}]_vars

----
\* C36: every connection in the idle queue is in the default database, and a
\* call made without a target database runs its statement on a connection
\* that is in the default database.
C36_DatabaseContextReset ==
    /\ \A c \in Range(pool) : db_context[c] = DefaultDb
    /\ \A i \in 1..Len(driver_log) :
          (req.database = "" /\ driver_log[i].kind \in {"statement", "exec"}) =>
              db_context[driver_log[i].conn] = DefaultDb

----
\* C38: at most one ConnectionPool is ever constructed, whatever the
\* interleaving of the callers of get_db_connection, and every caller's
\* get_connection goes to the same pool.
C38_SinglePool ==
    /\ Cardinality(constructed) <= 1
    /\ \A t, u \in Threads :
          (used_pool[t] # None /\ used_pool[u] # None) => used_pool[t] = used_pool[u]

\* get_stats is between its two reads or about to return
StatsStep == mpc' # mpc

\* C39: get_stats returns the count it read as total, the length of the idle
\* queue as available and the configured max and min; its steps leave the
\* count, the queue, the lock and every connection unchanged; and it needs
\* no lock: each of its steps can be taken in every state, also while a
\* caller waits at capacity holding the pool's lock.
C39_StatsPureRead ==
    /\ [][StatsStep => UNCHANGED poolVars]_vars
    /\ [][(StatsStep /\ mpc = "idle") => total_read' = connection_count]_vars
    /\ [][(StatsStep /\ mpc = "qsize") =>
            /\ stats'.returned
            /\ stats'.total_connections = total_read
            /\ stats'.available_connections = Len(pool)
            /\ stats'.max_connections = max_size
            /\ stats'.min_connections = min_size]_vars
    /\ [](mpc = "idle" => ENABLED StatsReadCount)
    /\ [](mpc = "qsize" => ENABLED <<mpc' = "idle" /\ NextStats>>_vars)

\* get_stats has returned the count and the queue length while a caller waits
\* at capacity inside the pool's lock
C39_Witness ==
    /\ stats.returned /\ mpc = "idle"
    /\ \E t \in Threads : pc[t] = "wait" /\ lock = t
    /\ stats.total_connections = connection_count
    /\ stats.total_connections = max_size
    /\ stats.available_connections = 0

====
